---- MODULE Spec2Model ----
(***************************************************************************)
(* Model of the asset integration engine of astro_modloader               *)
(* (src/src/astro_integrator.rs): the archive resolver get_asset and the   *)
(* four handlers handle_mission_trailheads, handle_persistent_actors,      *)
(* handle_linked_actor_components and handle_item_list_entries.            *)
(*                                                                         *)
(* A string that the code takes apart (Path::file_stem, str::split,        *)
(* the ^/Game/ regex) is a sequence of tokens: "/" and "." are tokens of   *)
(* their own, "_C" is a token of two characters, every other token is a    *)
(* run of at least two characters holding neither "/" nor ".".  Str turns  *)
(* the tokens into the string itself, which is what the tables store.      *)
(***************************************************************************)
EXTENDS Integers, Sequences, FiniteSets, TLC

VARIABLES
    integrated_pak,   \* the integrated archive: path -> member
    game_paks,        \* the original archives, in search order (read-only)
    handler,          \* the handler that is running, or "idle"
    values,           \* the merged instruction values given to that handler
    targets,          \* the target assets the running handler still has to do
    done,             \* the handlers that have run in this integration
    outcome,          \* how the last handler ended: "none", "running", "Ok", "Err", "Panic"
    step,             \* what the last per-asset step of a handler did
    written           \* history: path -> the package a handler last wrote under it

vars == <<integrated_pak, game_paks, handler, values, targets, done, outcome, step, written>>

---------------------------------------------------------------------------
(* Bounds of the model *)

\* the longest instruction array a mod supplies
MaxValues == 2

---------------------------------------------------------------------------
(* Strings, paths *)

RECURSIVE Str(_)
Str(toks) == IF toks = <<>> THEN "" ELSE Head(toks) \o Str(Tail(toks))

Contains(toks, t) == \E i \in 1..Len(toks) : toks[i] = t

LastPos(toks, t) ==
    IF Contains(toks, t)
    THEN CHOOSE i \in 1..Len(toks) : toks[i] = t /\ \A j \in (i+1)..Len(toks) : toks[j] # t
    ELSE 0

FirstPos(toks, t) ==
    IF Contains(toks, t)
    THEN CHOOSE i \in 1..Len(toks) : toks[i] = t /\ \A j \in 1..(i-1) : toks[j] # t
    ELSE 0

RECURSIVE StripSlashes(_)
StripSlashes(toks) ==
    IF toks # <<>> /\ toks[Len(toks)] = "/"
    THEN StripSlashes(SubSeq(toks, 1, Len(toks) - 1))
    ELSE toks

\* Option values are sequences: <<>> is None, <<v>> is Some(v).
None == <<>>
Some(v) == <<v>>
IsSome(o) == Len(o) = 1
Get(o) == o[1]

\* Path::file_name: the last component, None for an empty path, "/" or "..".
file_name(toks) ==
    LET p    == StripSlashes(toks)
        last == SubSeq(p, LastPos(p, "/") + 1, Len(p))
    IN  IF p = <<>> \/ last = <<".", ".">> THEN None ELSE Some(last)

\* Path::file_stem: the file name up to its last ".", the whole name when it
\* has no "." or only a leading one.
file_stem(toks) ==
    LET fn == file_name(toks)
    IN  IF ~IsSome(fn) THEN None
        ELSE LET n == Get(fn)
                 d == LastPos(n, ".")
             IN  IF d <= 1 THEN Some(n) ELSE Some(SubSeq(n, 1, d - 1))

\* Path::extension: what follows the last "." of the file name.
extension(toks) ==
    LET fn == file_name(toks)
    IN  IF ~IsSome(fn) THEN None
        ELSE LET n == Get(fn)
                 d == LastPos(n, ".")
             IN  IF d <= 1 THEN None ELSE Some(SubSeq(n, d + 1, Len(n)))

\* GAME_REGEX, "^/Game/"
GAME_REGEX_is_match(toks) ==
    Len(toks) >= 3 /\ SubSeq(toks, 1, 3) = <<"/", "Game", "/">>

game_to_absolute(path) ==
    IF ~GAME_REGEX_is_match(path) THEN None
    ELSE LET path_str == <<"Astro", "/", "Content", "/">> \o SubSeq(path, 4, Len(path))
         IN  IF IsSome(extension(path_str)) THEN Some(path_str)
             ELSE IF IsSome(file_name(path_str))
                  THEN Some(StripSlashes(path_str) \o <<".", "uasset">>)
                  ELSE Some(path_str)

\* str::split("."): the pieces between the "." tokens.
RECURSIVE split(_)
split(toks) ==
    LET d == FirstPos(toks, ".")
    IN  IF d = 0 THEN <<toks>>
        ELSE <<SubSeq(toks, 1, d - 1)>> \o split(SubSeq(toks, d + 1, Len(toks)))

\* &s[..s.len() - 2]: the string without its last two bytes.  Every token but
\* "/" and "." has at least two characters, so only a piece ending in "_C" or
\* in a longer token is cut without a panic; a longer token loses its tail,
\* which the model writes as the token "<cut>".
CutsLast2(toks) == toks # <<>> /\ toks[Len(toks)] \notin {"/", "."}
DropLast2(toks) ==
    IF toks[Len(toks)] = "_C" THEN SubSeq(toks, 1, Len(toks) - 1)
    ELSE SubSeq(toks, 1, Len(toks) - 1) \o <<"<cut>">>

---------------------------------------------------------------------------
(* Packages: name table, import table, export table *)

FName_new(content, index) == [content |-> content, index |-> index]
FName_from_slice(content) == FName_new(content, 0)

Import(class_package, class_name, outer_index, object_name) ==
    [class_package |-> FName_from_slice(class_package),
     class_name    |-> FName_from_slice(class_name),
     outer_index   |-> outer_index,
     object_name   |-> FName_from_slice(object_name)]

is_import(index) == index < 0
is_export(index) == index > 0

\* Asset::add_name_reference(name, false): the slot of name, appended if absent.
add_name_reference(asset, name) ==
    IF \E i \in 1..Len(asset.name_map) : asset.name_map[i] = name
    THEN asset
    ELSE [asset EXCEPT !.name_map = Append(@, name)]

add_fname(asset, name) == add_name_reference(asset, name)

RECURSIVE add_fnames(_, _)
add_fnames(asset, names) ==
    IF names = <<>> THEN asset
    ELSE add_fnames(add_fname(asset, Head(names)), Tail(names))

\* Asset::search_name_reference: the 0-based slot of name, if any.
search_name_reference(asset, name) ==
    IF \E i \in 1..Len(asset.name_map) : asset.name_map[i] = name
    THEN Some((CHOOSE i \in 1..Len(asset.name_map) :
                  asset.name_map[i] = name
                  /\ \A j \in 1..(i-1) : asset.name_map[j] # name) - 1)
    ELSE None

\* Asset::add_import: appends unconditionally; the new import's index.
add_import(asset, import) == [asset EXCEPT !.imports = Append(@, import)]
added_index(asset) == -Len(asset.imports)

\* Asset::get_import
get_import(asset, index) ==
    IF is_import(index) /\ -index <= Len(asset.imports)
    THEN Some(asset.imports[-index]) ELSE None

\* Asset::get_export
get_export(asset, index) ==
    IF is_export(index) /\ index <= Len(asset.exports)
    THEN Some(asset.exports[index]) ELSE None

\* Asset::find_import: the first import with this 4-tuple.
find_import(asset, class_package, class_name, outer_index, object_name) ==
    LET hit(i) == /\ asset.imports[i].class_package = class_package
                  /\ asset.imports[i].class_name = class_name
                  /\ asset.imports[i].outer_index = outer_index
                  /\ asset.imports[i].object_name = object_name
    IN  IF \E i \in 1..Len(asset.imports) : hit(i)
        THEN Some(-(CHOOSE i \in 1..Len(asset.imports) :
                       hit(i) /\ \A j \in 1..(i-1) : ~hit(j)))
        ELSE None

\* Asset::find_import_no_index: the same without the outer reference.
find_import_no_index(asset, class_package, class_name, object_name) ==
    LET hit(i) == /\ asset.imports[i].class_package = class_package
                  /\ asset.imports[i].class_name = class_name
                  /\ asset.imports[i].object_name = object_name
    IN  IF \E i \in 1..Len(asset.imports) : hit(i)
        THEN Some(-(CHOOSE i \in 1..Len(asset.imports) :
                       hit(i) /\ \A j \in 1..(i-1) : ~hit(j)))
        ELSE None

\* Exports.  Every variant carries the same fields; index_data is used by a
\* LevelExport, children by a StructExport, data by a RawExport.
Export(variant, class_index, object_name, outer_index, template_index, properties) ==
    [variant        |-> variant,
     class_index    |-> class_index,
     object_name    |-> object_name,
     outer_index    |-> outer_index,
     template_index |-> template_index,
     object_flags   |-> {},
     serialization_before_serialization_dependencies |-> <<>>,
     create_before_serialization_dependencies        |-> <<>>,
     serialization_before_create_dependencies        |-> <<>>,
     create_before_create_dependencies               |-> <<>>,
     properties     |-> properties,
     extras         |-> <<>>,
     index_data     |-> <<>>,
     children       |-> <<>>,
     data           |-> <<>>]

\* Properties
BoolProperty(name, value) ==
    [ptype |-> "BoolProperty", name |-> name, value |-> value]
EnumProperty(name, enum_type, value) ==
    [ptype |-> "EnumProperty", name |-> name, enum_type |-> enum_type, value |-> value]
ObjectProperty(name, value) ==
    [ptype |-> "ObjectProperty", name |-> name, value |-> value]
SoftObjectProperty(name, value) ==
    [ptype |-> "SoftObjectProperty", name |-> name, value |-> value, id |-> 0]
NameProperty(name, value) ==
    [ptype |-> "NameProperty", name |-> name, value |-> value]
GuidProperty(name, value) ==
    [ptype |-> "GuidProperty", name |-> name, value |-> value]
StructProperty(name, struct_type, value) ==
    [ptype |-> "StructProperty", name |-> name, struct_type |-> struct_type, value |-> value]
ArrayProperty(name, array_type, value) ==
    [ptype |-> "ArrayProperty", name |-> name, array_type |-> array_type, value |-> value]

EmptyAsset == [name_map |-> <<>>, imports |-> <<>>, exports |-> <<>>]

ZeroExtras == <<0, 0, 0, 0>>

---------------------------------------------------------------------------
(* Archives and the resolver *)

\* A member of an archive: its bytes decode to asset, or do not decode (ok = FALSE).
Member(asset) == [ok |-> TRUE, asset |-> asset]
Undecodable == [ok |-> FALSE, asset |-> EmptyAsset]

Ok(asset) == [ok |-> TRUE, asset |-> asset, err |-> ""]
Err(msg) == [ok |-> FALSE, asset |-> EmptyAsset, err |-> msg]

\* unreal_modintegrator::read_asset
read_asset(pak, name) ==
    IF name \in DOMAIN pak /\ pak[name].ok THEN Ok(pak[name].asset)
    ELSE Err("read_asset")

\* unreal_modintegrator::find_asset: the first archive holding name.
find_asset(paks, name) ==
    IF \E i \in 1..Len(paks) : name \in DOMAIN paks[i]
    THEN Some(CHOOSE i \in 1..Len(paks) :
                 name \in DOMAIN paks[i] /\ \A j \in 1..(i-1) : name \notin DOMAIN paks[j])
    ELSE None

\* unreal_modintegrator::write_asset: replace or insert the member.
write_asset(pak, asset, name) ==
    [p \in DOMAIN pak \cup {name} |-> IF p = name THEN Member(asset) ELSE pak[p]]

\* a resolver that searches the original archives before the integrated one
get_asset_originals_first(ipak, gpaks, name) ==
    LET original_asset == find_asset(gpaks, name)
    IN  IF IsSome(original_asset) THEN read_asset(gpaks[Get(original_asset)], name)
        ELSE IF read_asset(ipak, name).ok THEN read_asset(ipak, name)
        ELSE Err("No such ass")

\* lines 31-45
get_asset(ipak, gpaks, name) ==
    LET mine == read_asset(ipak, name)
    IN  IF mine.ok THEN mine
        ELSE LET original_asset == find_asset(gpaks, name)
             IN  IF ~IsSome(original_asset) THEN Err("No such ass")
                 ELSE read_asset(gpaks[Get(original_asset)], name)

---------------------------------------------------------------------------
(* Instruction values (serde_json::Value) *)

JString(toks) == [kind |-> "string", str |-> toks, items |-> <<>>, fields |-> <<>>]
JArray(items) == [kind |-> "array", str |-> <<>>, items |-> items, fields |-> <<>>]
\* fields: a sequence of <<key, value>> pairs, in the object's iteration order
JObject(fields) == [kind |-> "object", str |-> <<>>, items |-> <<>>, fields |-> fields]
JNumber == [kind |-> "number", str |-> <<>>, items |-> <<>>, fields |-> <<>>]

as_array(v) == IF v.kind = "array" THEN Some(v.items) ELSE None
as_str(v) == IF v.kind = "string" THEN Some(v.str) ELSE None
as_object(v) == IF v.kind = "object" THEN Some(v.fields) ELSE None

---------------------------------------------------------------------------
(* What one pass of a handler over one target asset did.  kind is "Ok" (the
   asset was written back), "Err" (the handler returned an error) or "Panic";
   resolved is what get_asset returned; asset is the in-memory package when
   the pass over this target ended; by is the handler, set when the pass is
   recorded. *)

StepRes(kind, msg, path, resolved, asset) ==
    [kind |-> kind, msg |-> msg, path |-> path, resolved |-> resolved, asset |-> asset,
     by |-> "none"]

NoStep == StepRes("none", "", "", Err(""), EmptyAsset)

\* the pass ended as st = [asset, kind, msg, ...] says
StepOf(st, path, got) == StepRes(st.kind, st.msg, path, got, st.asset)

\* add_import and the index it returns, kept after the indices returned before.
\* im = [asset, added]
push_import(im, import) ==
    [asset |-> add_import(im.asset, import),
     added |-> Append(im.added, added_index(add_import(im.asset, import)))]

\* the import of the generated class name_C, in the package added first
push_class_import(im, name) ==
    push_import(im, Import("/Script/Engine", "BlueprintGeneratedClass",
                           im.added[1], name \o "_C"))

\* the import of the class default object Default__name_C, its outer the
\* import added as number outer
push_default_import(im, path, name, outer) ==
    push_import(im, Import(path, name \o "_C", im.added[outer],
                           "Default__" \o name \o "_C"))

MAP_PATHS == <<"Astro/Content/Maps/Staging_T2.umap",
               "Astro/Content/Maps/Staging_T2_PackedPlanets_Switch.umap",
               "Astro/Content/Maps/test/BasicSphereT2.umap">>

---------------------------------------------------------------------------
(* handle_mission_trailheads *)

\* a staging that adds no import for the class and still refers to one
stage_trailhead_without_class_import(st, trailhead) ==
    IF ~IsSome(as_str(trailhead)) \/ ~IsSome(file_stem(trailhead.str))
    THEN [st EXCEPT !.err = "Invalid trailheads"]
    ELSE [asset |-> add_import(st.asset, Import("/Script/CoreUObject", "Package", 0,
                                                Str(trailhead.str))),
          props |-> Append(st.props,
                           ObjectProperty(FName_from_slice("dummy"),
                                          -(Len(st.asset.imports) + 2))),
          err   |-> ""]

\* lines 95-133: one trailhead of one mod's array.  st = [asset, props, err]
stage_trailhead(st, trailhead) ==
    LET a1 == add_name_reference(st.asset, "AstroMissionDataAsset")
        bad(a) == [st EXCEPT !.asset = a, !.err = "Invalid trailheads"]
    IN  IF ~IsSome(as_str(trailhead)) THEN bad(a1)
        ELSE IF ~IsSome(file_stem(trailhead.str)) THEN bad(a1)
        ELSE
        LET soft_class_name == Str(Get(file_stem(trailhead.str)))
            th == Str(trailhead.str)
            a2 == add_name_reference(add_name_reference(a1, th), soft_class_name)
            a3 == add_import(a2, Import("/Script/CoreUObject", "Package", 0, th))
            package_import == added_index(a3)
            a4 == add_import(a3, Import("/Script/Astro", "AstroMissionDataAsset",
                                        package_import, soft_class_name))
            new_import == added_index(a4)
        IN  [asset |-> a4,
             props |-> Append(st.props,
                              ObjectProperty(FName_from_slice("dummy"), new_import)),
             err   |-> ""]

RECURSIVE stage_trailheads(_, _)
stage_trailheads(st, trailheads) ==
    IF trailheads = <<>> \/ st.err # "" THEN st
    ELSE stage_trailheads(stage_trailhead(st, Head(trailheads)), Tail(trailheads))

\* lines 90-135: every mod's array
RECURSIVE stage_trailhead_arrays(_, _)
stage_trailhead_arrays(st, trailhead_arrays) ==
    IF trailhead_arrays = <<>> \/ st.err # "" THEN st
    ELSE IF ~IsSome(as_array(Head(trailhead_arrays)))
         THEN [st EXCEPT !.err = "Invalid trailheads"]
         ELSE stage_trailhead_arrays(
                  stage_trailheads(st, Get(as_array(Head(trailhead_arrays)))),
                  Tail(trailhead_arrays))

\* the class import of export e is named name
class_import_is(asset, e, name) ==
    /\ is_import(e.class_index)
    /\ IsSome(get_import(asset, e.class_index))
    /\ Get(get_import(asset, e.class_index)).object_name.content = name

\* lines 137-155: the first NormalExport whose class import is AstroSettings
\* (1-based here, 0 when there is none)
settings_export_index(asset) ==
    LET hit(i) == /\ asset.exports[i].variant = "NormalExport"
                  /\ class_import_is(asset, asset.exports[i], "AstroSettings")
    IN  IF \E i \in 1..Len(asset.exports) : hit(i)
        THEN CHOOSE i \in 1..Len(asset.exports) : hit(i) /\ \A j \in 1..(i-1) : ~hit(j)
        ELSE 0

\* an append that leaves the staged properties under the name they were
\* staged with
append_staged_unrenamed(asset, export_index, additional_properties) ==
    [asset EXCEPT !.exports[export_index].properties = @ \o additional_properties]

\* lines 157-171: the staged properties take the export's name and go to the
\* end of its property list
append_staged(asset, export_index, additional_properties) ==
    LET export == asset.exports[export_index]
        renamed == [i \in 1..Len(additional_properties) |->
                       [additional_properties[i] EXCEPT !.name = export.object_name]]
    IN  [asset EXCEPT !.exports[export_index].properties = @ \o renamed]

\* a pass that fails on a map without the settings export
mission_trailheads_map_requiring_settings(ipak, gpaks, map_path, trailhead_arrays) ==
    LET got == get_asset(ipak, gpaks, map_path)
        st == stage_trailhead_arrays(
                  [asset |-> got.asset, props |-> <<>>, err |-> ""], trailhead_arrays)
    IN  IF ~got.ok THEN StepRes("Err", got.err, map_path, got, EmptyAsset)
        ELSE IF st.err # "" THEN StepRes("Err", st.err, map_path, got, st.asset)
        ELSE IF settings_export_index(st.asset) = 0
        THEN StepRes("Err", "Unable to find AstroSettings", map_path, got, st.asset)
        ELSE StepRes("Ok", "", map_path, got,
                     append_staged(st.asset, settings_export_index(st.asset), st.props))

\* lines 81-174: the pass over one map
mission_trailheads_map(ipak, gpaks, map_path, trailhead_arrays) ==
    LET got == get_asset(ipak, gpaks, map_path)
    IN  IF ~got.ok THEN StepRes("Err", got.err, map_path, got, EmptyAsset)
        ELSE
        LET st == stage_trailhead_arrays(
                      [asset |-> got.asset, props |-> <<>>, err |-> ""], trailhead_arrays)
            export_index == settings_export_index(st.asset)
        IN  IF st.err # "" THEN StepRes("Err", st.err, map_path, got, st.asset)
            ELSE IF export_index # 0
                 THEN StepRes("Ok", "", map_path, got,
                              append_staged(st.asset, export_index, st.props))
                 ELSE StepRes("Ok", "", map_path, got, st.asset)

---------------------------------------------------------------------------
(* The embedded stencil packages (assets/LevelTemplate.umap and
   assets/ActorTemplate.uasset).  Their bytes are not part of the sources:
   the records below stand for the stencil exports the handlers clone, with
   references that are positional in the stencil package. *)

\* LevelTemplate export 2: the actor stencil
LEVEL_TEMPLATE_actor ==
    [Export("NormalExport", -3, FName_from_slice("ActorTemplate"), 1, -4,
            <<BoolProperty(FName_from_slice("bHidden"), FALSE)>>)
        EXCEPT !.extras = <<9, 9, 9, 9>>, !.object_flags = {"RF_Public"}]

\* LevelTemplate export 11: the scene component stencil
LEVEL_TEMPLATE_scene_component ==
    [Export("NormalExport", -9, FName_from_slice("DefaultSceneRoot"), 2, -10,
            <<BoolProperty(FName_from_slice("bNetAddressable"), FALSE)>>)
        EXCEPT !.extras = <<9, 9, 9, 9>>, !.object_flags = {"RF_Public"}]

---------------------------------------------------------------------------
(* handle_persistent_actors *)

ScsNode(internal_variable_name, type_link, attach_parent, original_category) ==
    [internal_variable_name |-> internal_variable_name,
     type_link              |-> type_link,
     attach_parent          |-> attach_parent,
     original_category      |-> original_category]

\* a failure inside a pass: the state keeps the in-memory asset
Failed(st, kind, msg) == [st EXCEPT !.kind = kind, !.msg = msg]

\* lines 229-239: the first LevelExport (1-based here, 0 when there is none)
find_level_index(asset) ==
    IF \E i \in 1..Len(asset.exports) : asset.exports[i].variant = "LevelExport"
    THEN CHOOSE i \in 1..Len(asset.exports) :
             /\ asset.exports[i].variant = "LevelExport"
             /\ \A j \in 1..(i-1) : asset.exports[j].variant # "LevelExport"
    ELSE 0

\* lines 331-353: the first NormalExport whose class import is
\* SimpleConstructionScript (0 when there is none)
find_scs_export(game_asset) ==
    LET hit(i) == /\ game_asset.exports[i].variant = "NormalExport"
                  /\ class_import_is(game_asset, game_asset.exports[i],
                                     "SimpleConstructionScript")
    IN  IF \E i \in 1..Len(game_asset.exports) : hit(i)
        THEN CHOOSE i \in 1..Len(game_asset.exports) : hit(i) /\ \A j \in 1..(i-1) : ~hit(j)
        ELSE 0

is_object_array(property) ==
    /\ property.ptype = "ArrayProperty"
    /\ IsSome(property.array_type)
    /\ Get(property.array_type).content = "ObjectProperty"

\* lines 367-375: the positive object references of one array
RECURSIVE positive_elements(_)
positive_elements(elements) ==
    IF elements = <<>> THEN <<>>
    ELSE (IF Head(elements).ptype = "ObjectProperty" /\ Head(elements).value > 0
          THEN <<Head(elements).value>> ELSE <<>>)
         \o positive_elements(Tail(elements))

\* lines 356-378: the nodes listed in the AllNodes arrays of the SCS export
RECURSIVE known_node_categories(_)
known_node_categories(properties) ==
    IF properties = <<>> THEN <<>>
    ELSE (IF is_object_array(Head(properties))
             /\ Head(properties).name.content = "AllNodes"
          THEN positive_elements(Head(properties).value) ELSE <<>>)
         \o known_node_categories(Tail(properties))

\* an insert that records the parent under the child's place
RECURSIVE insert_children_reversed(_, _, _)
insert_children_reversed(known_parents, elements, parent) ==
    IF elements = <<>> THEN known_parents
    ELSE insert_children_reversed(
             IF Head(elements).ptype = "ObjectProperty"
             THEN (parent :> Head(elements).value) @@ known_parents
             ELSE known_parents,
             Tail(elements), parent)

\* lines 450-461: every object reference of a ChildNodes array gets this node
\* as its parent (a later insert replaces an earlier one)
RECURSIVE insert_children(_, _, _)
insert_children(known_parents, elements, parent) ==
    IF elements = <<>> THEN known_parents
    ELSE insert_children(
             IF Head(elements).ptype = "ObjectProperty"
             THEN (Head(elements).value :> parent) @@ known_parents
             ELSE known_parents,
             Tail(elements), parent)

\* lines 409-467: the properties of one node.
\* nd = [name, import_1, import_2, known_parents, kind, msg]
RECURSIVE read_node_properties(_, _, _, _)
read_node_properties(nd, game_asset, properties, category) ==
    IF properties = <<>> \/ nd.kind # "Ok" THEN nd
    ELSE
    LET property == Head(properties)
        n == property.name.content
        next ==
            IF n = "InternalVariableName" /\ property.ptype = "NameProperty"
            THEN [nd EXCEPT !.name = property.value.content]
            ELSE IF n = "ComponentClass" /\ property.ptype = "ObjectProperty"
            THEN LET import == get_import(game_asset, property.value)
                 IN  IF ~IsSome(import) THEN Failed(nd, "Err", "No such link")
                     ELSE IF ~IsSome(get_import(game_asset, Get(import).outer_index))
                          THEN Failed(nd, "Err", "No such link")
                          ELSE [nd EXCEPT
                                  !.import_1 = import,
                                  !.import_2 = get_import(game_asset, Get(import).outer_index)]
            ELSE IF n = "ChildNodes" /\ is_object_array(property)
            THEN [nd EXCEPT !.known_parents =
                     insert_children(@, property.value, category)]
            ELSE nd
    IN  read_node_properties(next, game_asset, Tail(properties), category)

\* line 476: the owner import is added again when the lookup finds it
add_owner_import(asset, import_2) ==
    IF IsSome(find_import(asset, import_2.class_package, import_2.class_name,
                          import_2.outer_index, import_2.object_name))
    THEN add_import(asset, import_2)
    ELSE asset

\* lines 480-489: the class import is added again when the lookup finds it;
\* the node's type link is the added import, or null.  <<asset, type_link>>
add_type_import(asset, import_1) ==
    IF IsSome(find_import(asset, import_1.class_package, import_1.class_name,
                          import_1.outer_index, import_1.object_name))
    THEN <<add_import(asset, import_1), added_index(add_import(asset, import_1))>>
    ELSE <<asset, 0>>

\* lines 469-491
bring_node_imports(asset, import_1, import_2) ==
    add_type_import(add_owner_import(asset, import_2), import_1)

\* lines 469-494: the node read, its imports are brought over and it is listed
node_read(st, nd, category) ==
    IF nd.kind # "Ok"
    THEN [st EXCEPT !.kind = nd.kind, !.msg = nd.msg,
                    !.known_parents = nd.known_parents]
    ELSE IF IsSome(nd.import_1) /\ IsSome(nd.import_2)
    THEN LET b == bring_node_imports(st.asset, Get(nd.import_1), Get(nd.import_2))
         IN  [st EXCEPT !.asset = b[1],
                        !.known_parents = nd.known_parents,
                        !.nodes = Append(@, ScsNode(nd.name, b[2], None, category))]
    ELSE [st EXCEPT !.known_parents = nd.known_parents,
                    !.nodes = Append(@, ScsNode(nd.name, 0, None, category))]

\* lines 381-494: one listed node.  st = [asset, nodes, known_parents, kind, msg]
collect_node(st, game_asset, category) ==
    IF category > Len(game_asset.exports)
    THEN Failed(st, "Panic", "index out of bounds")
    ELSE IF ~(game_asset.exports[category].variant = "NormalExport"
              /\ class_import_is(game_asset, game_asset.exports[category], "SCS_Node"))
    THEN st
    ELSE node_read(st,
             read_node_properties(
                 [name |-> "Unknown", import_1 |-> None, import_2 |-> None,
                  known_parents |-> st.known_parents, kind |-> "Ok", msg |-> ""],
                 game_asset, game_asset.exports[category].properties, category),
             category)

RECURSIVE collect_nodes(_, _, _)
collect_nodes(st, game_asset, categories) ==
    IF categories = <<>> \/ st.kind # "Ok" THEN st
    ELSE collect_nodes(collect_node(st, game_asset, Head(categories)),
                       game_asset, Tail(categories))

\* lines 497-501: every node that was listed as a child gets its parent
set_attach_parents(nodes, known_parents) ==
    [i \in 1..Len(nodes) |->
        IF nodes[i].original_category \in DOMAIN known_parents
        THEN [nodes[i] EXCEPT !.attach_parent =
                 Some(known_parents[nodes[i].original_category])]
        ELSE nodes[i]]

\* lines 327-330: the actor's own package, from the game archives only
read_game_asset(gpaks, asset_name) ==
    IF IsSome(find_asset(gpaks, asset_name))
    THEN read_asset(gpaks[Get(find_asset(gpaks, asset_name))], asset_name)
    ELSE Err("")

\* lines 497-501
with_parents(st) ==
    IF st.kind # "Ok" THEN st
    ELSE [st EXCEPT !.nodes = set_attach_parents(@, st.known_parents)]

\* lines 331-503: the nodes of a package that resolved and has an SCS export
collect_from(st, game_asset) ==
    IF ~game_asset.ok THEN st
    ELSE IF find_scs_export(game_asset.asset) = 0 THEN st
    ELSE with_parents(collect_nodes(
             st, game_asset.asset,
             known_node_categories(
                 game_asset.asset.exports[find_scs_export(game_asset.asset)].properties)))

\* lines 327-503: the SCS nodes of the actor's own package, if it resolves.
\* st = [asset, nodes, known_parents, kind, msg]
collect_components(asset, gpaks, asset_name) ==
    collect_from([asset |-> asset, nodes |-> <<>>, known_parents |-> <<>>,
                  kind |-> "Ok", msg |-> ""],
                 read_game_asset(gpaks, asset_name))

\* lines 515-561: the component export of one node, cloned from the scene
\* component stencil
scene_export_of(node, template_category_pointer) ==
    [LEVEL_TEMPLATE_scene_component EXCEPT
        !.class_index = node.type_link,
        !.object_name = FName_new(node.internal_variable_name, 0),
        !.outer_index = template_category_pointer,
        !.extras      = ZeroExtras,
        !.properties  =
            <<BoolProperty(FName_from_slice("bNetAddressable"), TRUE),
              EnumProperty(FName_from_slice("CreationMethod"),
                           Some(FName_from_slice("EComponentCreationMethod")),
                           FName_from_slice("EComponentCreationMode::SimpleConstructionScript"))>>
            \o (IF IsSome(node.attach_parent)
                THEN <<ObjectProperty(FName_from_slice("AttachParent"),
                                      Get(node.attach_parent))>>
                ELSE <<>>)]

\* lines 514-596: the first pass over the nodes.  b = [asset, scene_exports,
\* serialized, node_name_to_export_index, old_export_to_new_export, kind, msg]
RECURSIVE build_components(_, _, _, _)
build_components(b, nodes, template_category_pointer, class_index) ==
    IF nodes = <<>> \/ b.kind # "Ok" THEN b
    ELSE
    LET node == Head(nodes)
        a1 == add_name_reference(b.asset, node.internal_variable_name)
        scene_exports == Append(b.scene_exports,
                                scene_export_of(node, template_category_pointer))
        count == Len(b.asset.exports) + Len(scene_exports)
        b1 == [b EXCEPT
                 !.asset = a1,
                 !.scene_exports = scene_exports,
                 !.serialized = Append(@,
                     ObjectProperty(FName_from_slice("BlueprintCreatedComponents"), count)),
                 !.node_name_to_export_index =
                     (node.internal_variable_name :> count) @@ @,
                 !.old_export_to_new_export =
                     (node.original_category :> count) @@ @]
        type_import == get_import(a1, node.type_link)
    IN  IF ~IsSome(type_import)
        THEN Failed(b1, "Err", "No such import")
        ELSE build_components(
                 [b1 EXCEPT !.asset = add_import(a1,
                     [class_package |-> FName_from_slice("/Script/Engine"),
                      class_name    |-> Get(type_import).object_name,
                      outer_index   |-> class_index,
                      object_name   |-> FName_new(
                          node.internal_variable_name \o "_GEN_VARIABLE", 0)])],
                 Tail(nodes), template_category_pointer, class_index)

\* lines 600-609: the AttachParent references of one component export take
\* their new index; a reference the map does not hold is a panic (kind)
unmapped_parent(export, old_export_to_new_export) ==
    \E i \in 1..Len(export.properties) :
        /\ export.properties[i].ptype = "ObjectProperty"
        /\ export.properties[i].name.content = "AttachParent"
        /\ export.properties[i].value \notin DOMAIN old_export_to_new_export

rewrite_attach_parent(export, old_export_to_new_export) ==
    [export EXCEPT !.properties =
        [i \in 1..Len(export.properties) |->
            IF /\ export.properties[i].ptype = "ObjectProperty"
               /\ export.properties[i].name.content = "AttachParent"
            THEN [export.properties[i] EXCEPT !.value = old_export_to_new_export[@]]
            ELSE export.properties[i]]]

\* lines 598-611: the second pass
rewrite_attach_parents(scene_exports, old_export_to_new_export) ==
    [i \in 1..Len(scene_exports) |->
        rewrite_attach_parent(scene_exports[i], old_export_to_new_export)]

\* lines 629-650: one property per node name (and RootComponent before the
\* one named DefaultSceneRoot), in the iteration order of the hash map:
\* order lists the names, the map's keys come out in that order
RECURSIVE node_name_properties(_, _)
node_name_properties(node_name_to_export_index, order) ==
    IF order = <<>> THEN <<>>
    ELSE (IF Head(order) \in DOMAIN node_name_to_export_index
          THEN (IF Head(order) = "DefaultSceneRoot"
                THEN <<ObjectProperty(FName_from_slice("RootComponent"),
                                      node_name_to_export_index[Head(order)])>>
                ELSE <<>>)
               \o <<ObjectProperty(FName_new(Head(order), 0),
                                   node_name_to_export_index[Head(order)])>>
          ELSE <<>>)
         \o node_name_properties(node_name_to_export_index, Tail(order))

\* lines 615-650
template_prop_data(serialized, node_name_to_export_index, order) ==
    <<BoolProperty(FName_from_slice("bHidden"), TRUE),
      ArrayProperty(FName_from_slice("BlueprintCreatedComponents"),
                    Some(FName_from_slice("ObjectProperty")), serialized)>>
    \o node_name_properties(node_name_to_export_index, order)

\* lines 668-677: the Level export owns the new actor
level_owns(asset, level_index) ==
    LET len == Len(asset.exports)
    IN  [asset EXCEPT
           !.exports[level_index].index_data = Append(@, len),
           !.exports[level_index].create_before_serialization_dependencies =
               Append(@, len)]

\* lines 598-678: the second pass, the actor export and the Level's link
append_built(b, actor_template, level_index, order) ==
    IF b.kind # "Ok" THEN [asset |-> b.asset, kind |-> b.kind, msg |-> b.msg]
    ELSE IF \E i \in 1..Len(b.scene_exports) :
                unmapped_parent(b.scene_exports[i], b.old_export_to_new_export)
    THEN [asset |-> b.asset, kind |-> "Panic", msg |-> "no entry found for key"]
    ELSE
    LET actor == [actor_template EXCEPT
                    !.serialization_before_create_dependencies =
                        @ \o <<actor_template.class_index,
                               actor_template.template_index>>,
                    !.create_before_create_dependencies = Append(@, level_index),
                    !.extras = ZeroExtras,
                    !.properties = template_prop_data(
                        b.serialized, b.node_name_to_export_index, order)]
    IN  [asset |-> level_owns(
                       [b.asset EXCEPT !.exports =
                           Append(@ \o rewrite_attach_parents(b.scene_exports,
                                                              b.old_export_to_new_export),
                                  actor)],
                       level_index),
         kind |-> "Ok", msg |-> ""]

\* lines 505-678: the components and the actor are appended.
\* st = [asset, kind, msg]
append_actor(st, nodes, actor_template, level_index, order) ==
    append_built(
        build_components(
            [asset |-> st.asset, scene_exports |-> <<>>, serialized |-> <<>>,
             node_name_to_export_index |-> <<>>, old_export_to_new_export |-> <<>>,
             kind |-> "Ok", msg |-> ""],
            nodes, Len(st.asset.exports) + Len(nodes) + 1, actor_template.class_index),
        actor_template, level_index, order)

\* lines 277-283: a stem with a "." is split and its second piece loses its
\* last two bytes.  <<actor_path_raw, actor>>
split_actor(actor_path_raw, stem) ==
    IF Contains(stem, ".")
    THEN <<split(stem)[1], DropLast2(split(stem)[2])>>
    ELSE <<actor_path_raw, stem>>

\* lines 285-319: the three imports of one actor.
\* im = [asset, added], added the indices add_import returned
actor_imports(asset, actor_path_raw, actor) ==
    push_default_import(
        push_class_import(
            push_import([asset |-> asset, added |-> <<>>],
                        Import("/Script/CoreUObject", "Package", 0, actor_path_raw)),
            actor),
        actor_path_raw, actor, 2)

\* lines 314-318: the actor stencil takes the actor's name and references
actor_template_of(im, actor, level_index) ==
    [LEVEL_TEMPLATE_actor EXCEPT
        !.class_index    = im.added[2],
        !.object_name    = FName_from_slice(actor),
        !.template_index = im.added[3],
        !.outer_index    = level_index]

\* lines 327-678: the nodes collected, the actor is appended
append_collected(c, actor_template, level_index, order) ==
    IF c.kind # "Ok" THEN [asset |-> c.asset, kind |-> c.kind, msg |-> c.msg]
    ELSE append_actor([asset |-> c.asset, kind |-> "Ok", msg |-> ""],
                      c.nodes, actor_template, level_index, order)

\* lines 321-678: the actor's own package is looked up under the path made
\* from actor, the file stem
inject_named(im, gpaks, level_index, actor, order) ==
    IF ~IsSome(game_to_absolute(actor))
    THEN [asset |-> im.asset, kind |-> "Err", msg |-> "Invalid persistent actor path"]
    ELSE append_collected(
             collect_components(im.asset, gpaks, Str(Get(game_to_absolute(actor)))),
             actor_template_of(im, Str(actor), level_index), level_index, order)

\* lines 264-678: one actor of one mod's array.  st = [asset, kind, msg];
\* level_index is 1-based
inject_actor(st, gpaks, level_index, persistent_actor, order) ==
    IF ~IsSome(as_str(persistent_actor))
    THEN Failed(st, "Err", "Invalid persistent actors")
    ELSE IF ~IsSome(file_stem(persistent_actor.str))
    THEN Failed(st, "Err", "Invalid persistent actors")
    ELSE IF Contains(Get(file_stem(persistent_actor.str)), ".")
            /\ ~CutsLast2(split(Get(file_stem(persistent_actor.str)))[2])
    THEN Failed(st, "Panic", "slice index")
    ELSE
    LET names == split_actor(persistent_actor.str, Get(file_stem(persistent_actor.str)))
        actor_path_raw == Str(names[1])
        actor == Str(names[2])
    IN  inject_named(
            actor_imports(
                add_fnames(st.asset, <<actor_path_raw, actor \o "_C",
                                       "Default__" \o actor \o "_C", actor>>),
                actor_path_raw, actor),
            gpaks, level_index, names[2], order)

RECURSIVE inject_actors(_, _, _, _, _)
inject_actors(st, gpaks, level_index, persistent_actors, order) ==
    IF persistent_actors = <<>> \/ st.kind # "Ok" THEN st
    ELSE inject_actors(inject_actor(st, gpaks, level_index, Head(persistent_actors), order),
                       gpaks, level_index, Tail(persistent_actors), order)

\* lines 257-679: every mod's array
RECURSIVE inject_actor_arrays(_, _, _, _, _)
inject_actor_arrays(st, gpaks, level_index, persistent_actor_arrays, order) ==
    IF persistent_actor_arrays = <<>> \/ st.kind # "Ok" THEN st
    ELSE IF ~IsSome(as_array(Head(persistent_actor_arrays)))
         THEN Failed(st, "Err", "Invalid persistent actors")
         ELSE inject_actor_arrays(
                  inject_actors(st, gpaks, level_index,
                                Get(as_array(Head(persistent_actor_arrays))), order),
                  gpaks, level_index, Tail(persistent_actor_arrays), order)

\* the structural names of lines 248-255
StructuralNames ==
    <<"bHidden", "bNetAddressable", "CreationMethod", "EComponentCreationMethod",
      "EComponentCreationMethod::SimpleConstructionScript",
      "BlueprintCreatedComponents", "AttachParent", "RootComponent">>

\* lines 229-682: the map resolved
persistent_actors_resolved(got, gpaks, map_path, persistent_actor_arrays, order) ==
    IF ~got.ok THEN StepRes("Err", got.err, map_path, got, EmptyAsset)
    ELSE IF find_level_index(got.asset) = 0
    THEN StepRes("Err", "Unable to find Level category", map_path, got, got.asset)
    ELSE StepOf(inject_actor_arrays(
                    [asset |-> add_fnames(got.asset, StructuralNames),
                     kind |-> "Ok", msg |-> ""],
                    gpaks, find_level_index(got.asset), persistent_actor_arrays, order),
                map_path, got)

\* lines 222-682: the pass over one map
persistent_actors_map(ipak, gpaks, map_path, persistent_actor_arrays, order) ==
    persistent_actors_resolved(get_asset(ipak, gpaks, map_path), gpaks, map_path,
                               persistent_actor_arrays, order)

---------------------------------------------------------------------------
(* handle_linked_actor_components *)

\* ActorTemplate exports[6]: the object-property stencil, a RawExport
ACTOR_TEMPLATE_object_property ==
    [Export("RawExport", -11, FName_from_slice("StencilProperty"), 3, -12, <<>>)
        EXCEPT !.data = <<7, 7>>, !.object_flags = {"RF_Public"}]

\* ActorTemplate exports[5]: the generic template stencil
ACTOR_TEMPLATE_template_export ==
    [Export("NormalExport", -13, FName_from_slice("Stencil_GEN_VARIABLE"), 3, -14,
            <<BoolProperty(FName_from_slice("bAutoActivate"), FALSE)>>)
        EXCEPT !.extras = <<9, 9, 9, 9>>, !.object_flags = {"RF_Public"}]

\* ActorTemplate exports[10]: the SCS node stencil
ACTOR_TEMPLATE_scs_node ==
    [Export("NormalExport", -15, FName_new("SCS_Node", 1), 9, -16, <<>>)
        EXCEPT !.extras = <<9, 9, 9, 9>>, !.object_flags = {"RF_Public"}]

\* EObjectFlags::from_bits: None when a bit is no flag
KnownFlags == {"RF_Public", "RF_Standalone", "RF_Transactional", "RF_ClassDefaultObject"}
from_bits_ok(object_flags) == object_flags \subseteq KnownFlags

\* lines 722-744: the merged map target name -> component paths, or the
\* failure.  m = [map, err]; a value is an object of arrays of strings
RECURSIVE all_strings(_)
all_strings(items) ==
    IF items = <<>> THEN TRUE
    ELSE IsSome(as_str(Head(items))) /\ all_strings(Tail(items))

strings_of(items) == [i \in 1..Len(items) |-> items[i].str]

RECURSIVE merge_fields(_, _)
merge_fields(m, fields) ==
    IF fields = <<>> \/ m.err # "" THEN m
    ELSE
    LET name == Head(fields)[1]
        components == Head(fields)[2]
    IN  IF ~IsSome(as_array(components)) \/ ~all_strings(components.items)
        THEN [m EXCEPT !.err = "Invalid linked_actor_components"]
        ELSE merge_fields(
                 [m EXCEPT !.map =
                     (name :> ((IF name \in DOMAIN m.map THEN m.map[name] ELSE <<>>)
                               \o strings_of(components.items))) @@ m.map],
                 Tail(fields))

RECURSIVE new_components_of(_, _)
new_components_of(m, linked_actors_maps) ==
    IF linked_actors_maps = <<>> \/ m.err # "" THEN m
    ELSE IF ~IsSome(as_object(Head(linked_actors_maps)))
         THEN [m EXCEPT !.err = "Invalid linked_actor_components"]
         ELSE new_components_of(merge_fields(m, Head(linked_actors_maps).fields),
                                Tail(linked_actors_maps))

\* lines 756-783: the scan of the exports.  loc = [scs, bgc, cdo, err], the
\* locations 1-based here, 0 when not found; the last match stays
RECURSIVE scan_locations(_, _, _)
scan_locations(loc, asset, i) ==
    IF i > Len(asset.exports) \/ loc.err # "" THEN loc
    ELSE
    LET e == asset.exports[i]
    IN  IF e.variant # "NormalExport" THEN scan_locations(loc, asset, i + 1)
        ELSE IF is_import(e.class_index) /\ ~IsSome(get_import(asset, e.class_index))
        THEN [loc EXCEPT !.err = "No such import"]
        ELSE
        LET name == IF is_import(e.class_index)
                    THEN Get(get_import(asset, e.class_index)).class_name.content
                    ELSE ""
            l1 == IF name = "SimpleConstructionScript" THEN [loc EXCEPT !.scs = i]
                  ELSE IF name = "BlueprintGeneratedClass" THEN [loc EXCEPT !.bgc = i]
                  ELSE loc
        IN  IF ~from_bits_ok(e.object_flags) THEN [l1 EXCEPT !.err = "Invalid export"]
            ELSE scan_locations(
                     IF "RF_ClassDefaultObject" \in e.object_flags
                     THEN [l1 EXCEPT !.cdo = i] ELSE l1,
                     asset, i + 1)

\* lines 852-858: <<component_path, component>>
split_component(component_path_raw, stem) ==
    IF Contains(stem, ".")
    THEN <<split(stem)[1], DropLast2(split(stem)[2])>>
    ELSE <<component_path_raw, component_path_raw>>

\* lines 1060-1079: every AllNodes and RootNodes array of the SCS owner gains
\* a reference to the new node.  <<properties, new_scs_node_name_index>>, the
\* index being that of the last such array, 0 when there is none
RECURSIVE push_scs_arrays(_, _, _)
push_scs_arrays(properties, exports_len, found) ==
    IF properties = <<>> THEN <<<<>>, found>>
    ELSE
    LET property == Head(properties)
        isNodes == property.ptype = "ArrayProperty"
                   /\ property.name.content \in {"AllNodes", "RootNodes"}
        rest == push_scs_arrays(Tail(properties), exports_len,
                                IF isNodes THEN Len(property.value) + 1 ELSE found)
    IN  <<<<IF isNodes
            THEN [property EXCEPT !.value =
                     Append(@, ObjectProperty(property.name, exports_len))]
            ELSE property>> \o rest[1],
          rest[2]>>

\* the imports the handler needs in the target: lines 799-827
needed_imports(asset) ==
    [object_property |->
        find_import_no_index(asset, FName_from_slice("/Script/CoreUObject"),
            FName_from_slice("Clawss"), FName_from_slice("ObjectProperty")),
     default_object_property |->
        find_import_no_index(asset, FName_from_slice("/Script/CoreUObject"),
            FName_from_slice("ObjectProperty"), FName_from_slice("Default__ObjectProperty")),
     scs_node |->
        find_import_no_index(asset, FName_from_slice("/Script/CoreUObject"),
            FName_from_slice("Class"), FName_from_slice("SCS_Node")),
     default_scs_node |->
        find_import_no_index(asset, FName_from_slice("/Script/CoreUObject"),
            FName_from_slice("SCS_Node"), FName_from_slice("Default__SCS_Node"))]

\* lines 868-896: the three imports of one component.
\* im = [asset, added], added the indices add_import returned
component_imports(asset, component_path, component) ==
    push_default_import(
        push_class_import(
            push_import([asset |-> asset, added |-> <<>>],
                        Import("/Script/CoreUObject", "Package", 0, component_path)),
            component),
        component_path, component, 1)

\* pushes that put an export in front of the table
push_component_in_front(im, loc, need, none_ref, component, node_offset, uuid) ==
    [im.asset EXCEPT
        !.exports = <<[ACTOR_TEMPLATE_template_export EXCEPT
                          !.object_name = FName_new(component \o "_GEN_VARIABLE", 0)]>>
                    \o @ \o <<ACTOR_TEMPLATE_object_property, ACTOR_TEMPLATE_scs_node>>]

\* lines 898-1032: the three exports of one component are pushed; the asset
\* after the pushes.  loc as found by the scan, need the imports found,
\* none_ref the slot of "None", uuid the value Uuid::new_v4 draws
push_component(im, loc, need, none_ref, component, node_offset, uuid) ==
    LET package_import == im.added[1]
        blueprint_generated_class_import == im.added[2]
        default_import == im.added[3]
        raw_data == <<none_ref, 0, 0, 0, 0, 1, 0, 0, 0, 4, 0, 0, 0, 4, 0, 0, 0,
                      none_ref, 0, blueprint_generated_class_import>>
        template_export ==
            [ACTOR_TEMPLATE_template_export EXCEPT
                !.class_index    = blueprint_generated_class_import,
                !.object_name    = FName_new(component \o "_GEN_VARIABLE", 0),
                !.template_index = default_import,
                !.outer_index    = loc.bgc,
                !.serialization_before_serialization_dependencies = Append(@, loc.bgc),
                !.serialization_before_create_dependencies =
                    @ \o <<blueprint_generated_class_import, default_import>>,
                !.create_before_create_dependencies = Append(@, loc.bgc),
                !.extras     = ZeroExtras,
                !.properties = <<BoolProperty(FName_from_slice("bAutoActivate"), TRUE)>>]
        template_index == Len(im.asset.exports) + 1
        object_property_template ==
            [ACTOR_TEMPLATE_object_property EXCEPT
                !.class_index    = need.object_property,
                !.object_name    = FName_from_slice("SCS_Node"),
                !.template_index = need.default_scs_node,
                !.outer_index    = loc.bgc,
                !.create_before_serialization_dependencies =
                    Append(@, blueprint_generated_class_import),
                !.create_before_create_dependencies = Append(@, loc.bgc),
                !.data = raw_data]
        scs_node_template ==
            [ACTOR_TEMPLATE_scs_node EXCEPT
                !.object_name = FName_new("SCS_Node", node_offset),
                !.outer_index = loc.scs,
                !.extras      = ZeroExtras,
                !.create_before_serialization_dependencies =
                    @ \o <<blueprint_generated_class_import, template_index>>,
                !.serialization_before_create_dependencies =
                    @ \o <<need.scs_node, need.default_scs_node>>,
                !.create_before_create_dependencies = Append(@, loc.scs),
                !.properties =
                    <<ObjectProperty(FName_from_slice("ComponentClass"),
                                     blueprint_generated_class_import),
                      ObjectProperty(FName_from_slice("ComponentTemplate"),
                                     template_index),
                      StructProperty(FName_from_slice("VariableGuid"),
                                     Some(FName_from_slice("Guid")),
                                     <<GuidProperty(FName_from_slice("VariableGuid"), uuid)>>),
                      NameProperty(FName_from_slice("InternalVariableName"),
                                   FName_from_slice(component))>>]
    IN  [im.asset EXCEPT
            !.exports = (@ \o <<template_export>>)
                        \o <<object_property_template>> \o <<scs_node_template>>,
            !.exports[loc.cdo].serialization_before_serialization_dependencies =
                Append(@, template_index)]

\* lines 1034-1090: the owners take the new node.  st = [asset, node_offset,
\* kind, msg], pushed the asset after the three pushes
link_component(st, loc, pushed) ==
    LET exports_len == Len(pushed.exports)
        node_offset == st.node_offset + 1
    IN  IF pushed.exports[loc.bgc].variant # "StructExport"
        THEN [st EXCEPT !.asset = pushed, !.node_offset = node_offset,
                        !.kind = "Panic", !.msg = "Corrupted memory"]
        ELSE IF pushed.exports[loc.scs].variant # "NormalExport"
        THEN [st EXCEPT !.asset = [pushed EXCEPT !.exports[loc.bgc].children =
                                       Append(@, exports_len - 1)],
                        !.node_offset = node_offset,
                        !.kind = "Panic", !.msg = "Corrupted memory"]
        ELSE
        LET arrays == push_scs_arrays(pushed.exports[loc.scs].properties, exports_len, 0)
            linked == [pushed EXCEPT
                     !.exports[loc.bgc].children = Append(@, exports_len - 1),
                     !.exports[loc.scs].create_before_serialization_dependencies =
                         Append(@, exports_len),
                     !.exports[loc.scs].serialization_before_serialization_dependencies =
                         Append(@, exports_len),
                     !.exports[loc.scs].properties = arrays[1]]
        IN  IF arrays[2] = 0
            THEN [st EXCEPT !.asset = linked, !.node_offset = node_offset,
                            !.kind = "Err", !.msg = "Corrupted ActorTemplate"]
            ELSE [st EXCEPT
                    !.asset = [linked EXCEPT
                        !.exports[exports_len].object_name.index = arrays[2]],
                    !.node_offset = node_offset]

\* lines 838-1090: one component
attach_component(st, loc, need, none_ref, component_path_raw, uuid) ==
    IF ~IsSome(file_stem(component_path_raw))
    THEN Failed(st, "Err", "Invalid linked actor component")
    ELSE IF Contains(Get(file_stem(component_path_raw)), ".")
            /\ ~CutsLast2(split(Get(file_stem(component_path_raw)))[2])
    THEN Failed(st, "Panic", "slice index")
    ELSE
    LET names == split_component(component_path_raw, Get(file_stem(component_path_raw)))
        component_path == Str(names[1])
        component == Str(names[2])
    IN  link_component(st, loc,
            push_component(
                component_imports(
                    add_fnames(st.asset,
                        <<component_path, "Default__" \o component \o "_C",
                          component \o "_C", component \o "_GEN_VARIABLE", component,
                          "SCS_Node">>),
                    component_path, component),
                loc, need, none_ref, component, st.node_offset + 1, uuid))

RECURSIVE attach_components(_, _, _, _, _, _)
attach_components(st, loc, need, none_ref, components, uuids) ==
    IF components = <<>> \/ st.kind # "Ok" THEN st
    ELSE attach_components(
             attach_component(st, loc, need, none_ref, Head(components), Head(uuids)),
             loc, need, none_ref, Tail(components), Tail(uuids))

\* lines 785-835: the locations and the imports the handler needs
linked_scanned(got, path, loc, need, none_ref, components, uuids) ==
    IF loc.err # "" THEN StepRes("Err", loc.err, path, got, got.asset)
    ELSE IF loc.scs = 0
    THEN StepRes("Err", "Unable to find SimpleConstructionScript", path, got, got.asset)
    ELSE IF loc.bgc = 0
    THEN StepRes("Err", "Unable to find BlueprintGeneratedClass", path, got, got.asset)
    ELSE IF loc.cdo = 0 THEN StepRes("Err", "Unable to find CDO", path, got, got.asset)
    ELSE IF \/ ~IsSome(need.object_property)
            \/ ~IsSome(need.default_object_property)
            \/ ~IsSome(need.scs_node)
            \/ ~IsSome(need.default_scs_node)
    THEN StepRes("Err", "No such import", path, got, got.asset)
    ELSE IF ~IsSome(none_ref)
    THEN StepRes("Err", "Name reference to None not found", path, got, got.asset)
    ELSE StepOf(attach_components(
                    [asset |-> add_fname(got.asset, "bAutoActivate"),
                     node_offset |-> 0, kind |-> "Ok", msg |-> ""],
                    loc,
                    [object_property  |-> Get(need.object_property),
                     scs_node         |-> Get(need.scs_node),
                     default_scs_node |-> Get(need.default_scs_node)],
                    Get(none_ref), components, uuids),
                path, got)

\* lines 749-783: the target resolved and scanned
linked_resolved(got, path, components, uuids) ==
    IF ~got.ok THEN StepRes("Err", got.err, path, got, EmptyAsset)
    ELSE linked_scanned(got, path,
             scan_locations([scs |-> 0, bgc |-> 0, cdo |-> 0, err |-> ""], got.asset, 1),
             needed_imports(got.asset), search_name_reference(got.asset, "None"),
             components, uuids)

\* lines 747-1094: the pass over one target actor asset
linked_actor_components_asset(ipak, gpaks, name, components, uuids) ==
    IF ~IsSome(game_to_absolute(name))
    THEN StepRes("Err", "Invalid asset name", Str(name), Err(""), EmptyAsset)
    ELSE linked_resolved(get_asset(ipak, gpaks, Str(Get(game_to_absolute(name)))),
                         Str(Get(game_to_absolute(name))), components, uuids)

---------------------------------------------------------------------------
(* handle_item_list_entries *)

\* lines 1122-1138: the arrays of one target.  m = [map, err], map: key -> paths
RECURSIVE merge_entries(_, _)
merge_entries(m, fields) ==
    IF fields = <<>> \/ m.err # "" THEN m
    ELSE
    LET item_name == Head(fields)[1]
        entries == Head(fields)[2]
    IN  IF ~IsSome(as_array(entries)) \/ ~all_strings(entries.items)
        THEN [m EXCEPT !.err = "Invalid item_list_entries"]
        ELSE merge_entries(
                 [m EXCEPT !.map =
                     (item_name :> ((IF item_name \in DOMAIN m.map THEN m.map[item_name]
                                     ELSE <<>>) \o strings_of(entries.items))) @@ m.map],
                 Tail(fields))

\* lines 1113-1139: the targets of one mod's object
RECURSIVE merge_items(_, _)
merge_items(m, fields) ==
    IF fields = <<>> \/ m.err # "" THEN m
    ELSE
    LET name == Head(fields)[1]
        item_list_entries == Head(fields)[2]
    IN  IF ~IsSome(as_object(item_list_entries))
        THEN [m EXCEPT !.err = "Invalid item_list_entries"]
        ELSE LET inner == merge_entries(
                              [map |-> IF name \in DOMAIN m.map THEN m.map[name] ELSE <<>>,
                               err |-> ""],
                              item_list_entries.fields)
             IN  IF inner.err # "" THEN [m EXCEPT !.err = inner.err]
                 ELSE merge_items([m EXCEPT !.map = (name :> inner.map) @@ m.map],
                                  Tail(fields))

\* lines 1107-1140: new_items, target name -> key -> item paths
RECURSIVE new_items_of(_, _)
new_items_of(m, item_list_entires_maps) ==
    IF item_list_entires_maps = <<>> \/ m.err # "" THEN m
    ELSE IF ~IsSome(as_object(Head(item_list_entires_maps)))
         THEN [m EXCEPT !.err = "Invalid item_list_entries"]
         ELSE new_items_of(merge_items(m, Head(item_list_entires_maps).fields),
                           Tail(item_list_entires_maps))

\* lines 1152-1194: one property of export i against the names of new_items
\* (the target names), in their iteration order.  acc = [map, err], map:
\* name -> <<export index, array type, name>>*
RECURSIVE match_property(_, _, _, _, _)
match_property(acc, asset, i, property, names) ==
    IF names = <<>> \/ acc.err # "" THEN acc
    ELSE
    LET name == Head(names)
        e == asset.exports[i]
        qualified == Contains(name, ".")
        object_name == IF is_import(e.class_index)
                       THEN Get(get_import(asset, e.class_index)).object_name.content
                       ELSE ""
        arr_name == IF qualified THEN Str(split(name)[2]) ELSE Str(name)
        rest == Tail(names)
    IN  IF qualified /\ is_import(e.class_index) /\ ~IsSome(get_import(asset, e.class_index))
        THEN [acc EXCEPT !.err = "No such import"]
        ELSE IF qualified /\ object_name # Str(split(name)[1])
        THEN match_property(acc, asset, i, property, rest)
        ELSE IF property.ptype = "ArrayProperty" /\ property.name.content = arr_name
        THEN IF ~IsSome(property.array_type)
             THEN [acc EXCEPT !.err = "Unknown array type"]
             ELSE match_property(
                      [acc EXCEPT !.map =
                          (name :> Append(IF name \in DOMAIN acc.map THEN acc.map[name]
                                          ELSE <<>>,
                                          <<i, Get(property.array_type).content, name>>))
                          @@ acc.map],
                      asset, i, property, rest)
        ELSE match_property(acc, asset, i, property, rest)

RECURSIVE match_properties(_, _, _, _, _)
match_properties(acc, asset, i, properties, names) ==
    IF properties = <<>> \/ acc.err # "" THEN acc
    ELSE match_properties(match_property(acc, asset, i, Head(properties), names),
                          asset, i, Tail(properties), names)

\* lines 1148-1198: item_types_property
RECURSIVE item_types_property_of(_, _, _, _)
item_types_property_of(acc, asset, i, names) ==
    IF i > Len(asset.exports) \/ acc.err # "" THEN acc
    ELSE item_types_property_of(
             IF asset.exports[i].variant = "NormalExport"
             THEN match_properties(acc, asset, i, asset.exports[i].properties, names)
             ELSE acc,
             asset, i + 1, names)

\* lines 1206-1230: <<real_name, class_name, soft_class_name>> of an item path
\* (the path has a file stem here)
item_names(item_path) ==
    IF Contains(item_path, ".")
    THEN <<Str(split(item_path)[1]), Str(split(item_path)[2]), Str(split(item_path)[2])>>
    ELSE <<Str(item_path), Str(Get(file_stem(item_path))) \o "_C",
           Str(Get(file_stem(item_path)))>>

\* lines 1234-1298: one item path against the matches found for it.
\* st = [asset, kind, msg]; bgc is the import made for this item path, 0
\* while there is none
RECURSIVE add_item(_, _, _, _)
add_item(st, ns, matches, bgc) ==
    IF matches = <<>> THEN st
    ELSE
    LET export_index == Head(matches)[1]
        array_type == Head(matches)[2]
        name == Str(Head(matches)[3])
    IN  IF array_type = "ObjectProperty"
        THEN LET a1 == add_fname(add_fname(st.asset, ns[1]), ns[2])
                 a2 == add_import(a1, Import("/Script/CoreUObject", "Package", 0, ns[1]))
                 a3 == add_import(a2, Import("/Script/Engine", "BlueprintGeneratedClass",
                                             added_index(a2), ns[2]))
                 a  == IF bgc = 0 THEN a3 ELSE st.asset
                 blueprint_generated_class_import ==
                       IF bgc = 0 THEN added_index(a3) ELSE bgc
             IN  add_item(
                     [st EXCEPT !.asset =
                         [a EXCEPT !.exports[export_index].properties =
                             Append(@, ObjectProperty(FName_from_slice(name),
                                                      blueprint_generated_class_import))]],
                     ns, Tail(matches), blueprint_generated_class_import)
        ELSE IF array_type = "SoftObjectProperty"
        THEN LET a == add_name_reference(add_fname(st.asset, ns[1]),
                                         ns[1] \o "." \o ns[3])
             IN  add_item(
                     [st EXCEPT !.asset =
                         [a EXCEPT !.exports[export_index].properties =
                             Append(@, SoftObjectProperty(FName_from_slice(name),
                                        FName_new(ns[1] \o "." \o ns[3], 0)))]],
                     ns, Tail(matches), bgc)
        ELSE add_item(st, ns, Tail(matches), bgc)

\* lines 1205-1299: the item paths of one key
RECURSIVE add_items(_, _, _)
add_items(st, item_types_property, paths) ==
    IF paths = <<>> \/ st.kind # "Ok" THEN st
    ELSE
    LET item_path == Head(paths)
    IN  IF ~Contains(item_path, ".") /\ ~IsSome(file_stem(item_path))
        THEN Failed(st, "Err", "Invalid item_path")
        ELSE IF item_path \notin DOMAIN item_types_property
        THEN Failed(st, "Panic", "unwrap on None")
        ELSE add_items(add_item(st, item_names(item_path),
                                item_types_property[item_path], 0),
                       item_types_property, Tail(paths))

\* lines 1200-1300: the keys of the target, in the iteration order of its
\* map.  entries: a sequence of <<key, paths>>
RECURSIVE add_entries(_, _, _)
add_entries(st, item_types_property, entries) ==
    IF entries = <<>> \/ st.kind # "Ok" THEN st
    ELSE add_entries(
             IF Head(entries)[1] \in DOMAIN item_types_property
             THEN add_items(st, item_types_property, Head(entries)[2])
             ELSE st,
             item_types_property, Tail(entries))

\* lines 1143-1302: the pass over one target asset.  names: the target names
\* of new_items in iteration order
item_list_entries_asset(ipak, gpaks, name, entries, names) ==
    IF ~IsSome(game_to_absolute(name))
    THEN StepRes("Err", "Invalid asset name", Str(name), Err(""), EmptyAsset)
    ELSE
    LET path == Str(Get(game_to_absolute(name)))
        got == get_asset(ipak, gpaks, path)
    IN  IF ~got.ok THEN StepRes("Err", got.err, path, got, EmptyAsset)
        ELSE
        LET types == item_types_property_of([map |-> <<>>, err |-> ""], got.asset, 1, names)
        IN  IF types.err # "" THEN StepRes("Err", types.err, path, got, got.asset)
            ELSE LET st == add_entries([asset |-> got.asset, kind |-> "Ok", msg |-> ""],
                                       types.map, entries)
                 IN  StepRes(st.kind, st.msg, path, got, st.asset)

---------------------------------------------------------------------------
(* The archives the integration starts from *)

ObjectArray == Some(FName_from_slice("ObjectProperty"))
SoftObjectArray == Some(FName_from_slice("SoftObjectProperty"))

MapImports ==
    <<Import("/Script/CoreUObject", "Package", 0, "/Script/Engine"),
      Import("/Script/CoreUObject", "Class", -1, "Level"),
      Import("/Script/CoreUObject", "Package", 0, "/Script/Astro"),
      Import("/Script/CoreUObject", "Class", -3, "AstroSettings"),
      Import("/Script/CoreUObject", "Class", -1, "SceneComponent")>>

MapNames == <<"None", "/Script/CoreUObject", "/Script/Engine", "/Script/Astro", "Package",
              "Class", "Level", "AstroSettings", "SceneComponent", "PersistentLevel",
              "Beacon", "Planet">>

\* A map: a component export, the Level slot and, with settings, the
\* AstroSettings export.  level = FALSE leaves a NormalExport in the Level slot.
MapAsset(tag, level, settings) ==
    LET comp == [Export("NormalExport", -5, FName_from_slice(tag), 2, 0, <<>>)
                    EXCEPT !.create_before_create_dependencies = <<2>>]
        lvl  == [Export(IF level THEN "LevelExport" ELSE "NormalExport", -2,
                        FName_from_slice("PersistentLevel"), 0, 0, <<>>)
                    EXCEPT !.index_data = IF level THEN <<1>> ELSE <<>>,
                           !.create_before_serialization_dependencies = <<1>>]
        aset == Export("NormalExport", -4, FName_new("AstroSettings", 1), 2, 0,
                       <<BoolProperty(FName_from_slice("Planet"), TRUE),
                         ObjectProperty(FName_from_slice("Beacon"), 1)>>)
    IN  [name_map |-> MapNames,
         imports  |-> MapImports,
         exports  |-> IF settings THEN <<comp, lvl, aset>> ELSE <<comp, lvl>>]

MapVariants == {"full", "nosettings", "nolevel", "absent"}

MapVariant(v) ==
    CASE v = "full"       -> MapAsset("Beacon", TRUE, TRUE)
      [] v = "nosettings" -> MapAsset("Beacon", TRUE, FALSE)
      [] v = "nolevel"    -> MapAsset("Beacon", FALSE, TRUE)

\* at most one of the three maps departs from the full one
MapChoices ==
    {c \in [1..3 -> MapVariants] : Cardinality({i \in 1..3 : c[i] # "full"}) <= 1}

\* An actor blueprint package.  Its class imports are those of a cooked
\* package (class_name "Class"); with named = TRUE the imports of the
\* construction script and of the generated class carry the class's own name
\* as class_name, and with clawss = TRUE the ObjectProperty class import has
\* the class_name the handler looks up.  bgc is the variant of the generated
\* class export.
ActorImports(named, clawss) ==
    <<Import("/Script/CoreUObject", "Package", 0, "/Script/Engine"),
      Import("/Script/CoreUObject", IF named THEN "SimpleConstructionScript" ELSE "Class",
             -1, "SimpleConstructionScript"),
      Import("/Script/CoreUObject", IF named THEN "BlueprintGeneratedClass" ELSE "Class",
             -1, "BlueprintGeneratedClass"),
      Import("/Script/CoreUObject", "Class", -1, "SCS_Node"),
      Import("/Script/CoreUObject", "SCS_Node", -1, "Default__SCS_Node"),
      Import("/Script/CoreUObject", "Package", 0, "/Script/CoreUObject"),
      Import("/Script/CoreUObject", IF clawss THEN "Clawss" ELSE "Class",
             -6, "ObjectProperty"),
      Import("/Script/CoreUObject", "ObjectProperty", -6, "Default__ObjectProperty"),
      Import("/Script/CoreUObject", "Class", -1, "SceneComponent"),
      Import("/Script/CoreUObject", "Class", -1, "StaticMeshComponent")>>

ActorNames == <<"None", "AllNodes", "RootNodes", "SCS_Node", "DefaultSceneRoot", "Mesh",
                "InternalVariableName", "ComponentClass", "ChildNodes">>

\* exports: 1 the generated class, 2 the construction script with its
\* AllNodes and RootNodes, 3 the class default object, 4 the root node with
\* the node 5 as child, 5 a node whose component class the maps do not import
ActorAsset(named, clawss, bgc) ==
    LET node(name, instance, class, children) ==
            Export("NormalExport", -4, FName_new("SCS_Node", instance), 2, -5,
                   <<ObjectProperty(FName_from_slice("ComponentClass"), class),
                     NameProperty(FName_from_slice("InternalVariableName"),
                                  FName_from_slice(name)),
                     ArrayProperty(FName_from_slice("ChildNodes"), ObjectArray,
                         [i \in 1..Len(children) |->
                             ObjectProperty(FName_from_slice("ChildNodes"), children[i])])>>)
        refs(name, idx) ==
            [i \in 1..Len(idx) |-> ObjectProperty(FName_from_slice(name), idx[i])]
    IN  [name_map |-> ActorNames,
         imports  |-> ActorImports(named, clawss),
         exports  |->
            <<[Export(bgc, -3, FName_from_slice("Beacon_C"), 0, 0, <<>>)
                  EXCEPT !.children = <<>>],
              Export("NormalExport", -2, FName_from_slice("SimpleConstructionScript_0"),
                     1, 0,
                     <<ArrayProperty(FName_from_slice("RootNodes"), ObjectArray,
                                     refs("RootNodes", <<4>>)),
                       ArrayProperty(FName_from_slice("AllNodes"), ObjectArray,
                                     refs("AllNodes", <<4, 5>>))>>),
              [Export("NormalExport", 1, FName_from_slice("Default__Beacon_C"), 0, 0, <<>>)
                  EXCEPT !.object_flags = {"RF_Public", "RF_ClassDefaultObject"}],
              node("DefaultSceneRoot", 1, -9, <<5>>),
              node("Mesh", 2, -10, <<>>)>>]

\* A data asset with item lists.  Its export 1 has three array properties, two
\* of object references and one of soft references, export 2 one more of
\* object references; own names the asset's game path, and the arrays named so
\* are the ones a key equal to the target name matches.
ItemAsset(own) ==
    [name_map |-> <<"None", "ItemTypes", "SoftItems", own>>,
     imports  |-> <<Import("/Script/CoreUObject", "Package", 0, "/Script/Astro"),
                    Import("/Script/CoreUObject", "Class", -1, "ItemList")>>,
     exports  |->
        <<Export("NormalExport", -2, FName_from_slice("Catalog"), 0, 0,
                 <<ArrayProperty(FName_from_slice("ItemTypes"), ObjectArray, <<>>),
                   ArrayProperty(FName_from_slice(own), ObjectArray, <<>>),
                   ArrayProperty(FName_from_slice(own), SoftObjectArray, <<>>)>>),
          Export("NormalExport", -2, FName_from_slice("Extra"), 0, 0,
                 <<ArrayProperty(FName_from_slice(own), ObjectArray, <<>>)>>)>>]

\* game paths the instructions name
ActorBeacon  == <<"/", "Game", "/", "Actors", "/", "Beacon">>
ActorNamed   == <<"/", "Game", "/", "Actors", "/", "Named">>
ActorClawss  == <<"/", "Game", "/", "Actors", "/", "Clawss">>
ActorStruct  == <<"/", "Game", "/", "Actors", "/", "Struct">>
ActorMissing == <<"/", "Game", "/", "Actors", "/", "Missing">>
ActorOutside == <<"Actors", "/", "Beacon">>
ItemList     == <<"/", "Game", "/", "Items", "/", "List">>
ItemOwn      == <<"/", "Game", "/", "Items", "/", "Own">>
ItemPathA    == <<"/", "Game", "/", "Items", "/", "ItemA">>

Abs(game_path) == Str(Get(game_to_absolute(game_path)))

\* The base game archive, searched last.
BasePak(c) ==
    [p \in {MAP_PATHS[i] : i \in {i \in 1..3 : c[i] # "absent"}} |->
        LET i == CHOOSE i \in 1..3 : MAP_PATHS[i] = p
        IN  Member(IF i = 1 THEN MapAsset("Planet", TRUE, TRUE) ELSE MapVariant(c[i]))]
    @@ (Abs(ActorBeacon) :> Member(ActorAsset(FALSE, FALSE, "StructExport")))
    @@ (Abs(ActorNamed)  :> Member(ActorAsset(TRUE, FALSE, "NormalExport")))
    @@ (Abs(ActorClawss) :> Member(ActorAsset(TRUE, TRUE, "NormalExport")))
    @@ (Abs(ActorStruct) :> Member(ActorAsset(TRUE, TRUE, "StructExport")))
    @@ (Abs(ItemList)    :> Member(ItemAsset("Other")))
    @@ (Abs(ItemOwn)     :> Member(ItemAsset(Str(ItemOwn))))

\* A patch archive, searched first: it carries the first map.
PatchPak(c) ==
    [p \in {MAP_PATHS[i] : i \in {i \in 1..1 : c[i] # "absent"}} |->
        Member(MapVariant(c[1]))]

\* The integrated archive before the integration: empty, or left by an
\* earlier integration with a changed second map and a member for the first
\* map that does not decode.
EarlierIntegrated ==
    (MAP_PATHS[2] :> Member([MapAsset("Beacon", TRUE, TRUE) EXCEPT
                               !.name_map = Append(@, "Earlier")])
     @@ MAP_PATHS[1] :> Undecodable)

IntegratedChoices == {<<>>, EarlierIntegrated}

---------------------------------------------------------------------------
(* The values the mods supply *)

RECURSIVE Repeat(_, _)
Repeat(x, n) == IF n = 0 THEN <<>> ELSE <<x>> \o Repeat(x, n - 1)

Perms(S) == {f \in [1..Cardinality(S) -> S] : \A x \in S : \E i \in DOMAIN f : f[i] = x}

MissionA == <<"/", "Game", "/", "Missions", "/", "MissionA">>
MissionB == <<"/", "Game", "/", "Missions", "/", "MissionB", ".", "MissionB">>

\* mission_trailheads: one value per mod, each meant to be an array of strings
TrailheadValues ==
    {<<JArray(Repeat(JString(MissionA), n))>> : n \in 0..MaxValues}
    \cup {<<JArray(<<JString(MissionA)>>), JArray(<<JString(MissionB)>>)>>,
          <<JArray(<<JString(MissionA), JNumber>>)>>,
          <<JNumber>>}

\* persistent_actors: one value per mod, each meant to be an array of strings
PersistentActorValues ==
    {<<JArray(Repeat(JString(ActorBeacon), n))>> : n \in 0..MaxValues}
    \cup {<<JArray(<<JString(ActorBeacon \o <<".", "Beacon", "_C">>)>>)>>,
          <<JArray(<<JString(ActorBeacon \o <<".", "Beacon", "_C", ".", "uasset">>)>>)>>,
          <<JArray(<<JNumber>>)>>,
          <<JNumber>>}

ComponentA == <<"/", "Game", "/", "Components", "/", "Light">>
ComponentB == <<"/", "Game", "/", "Components", "/", "Drill", ".", "Drill", "_C", ".", "x">>

\* linked_actor_components: one object per mod, target -> array of strings
LinkedActorValues ==
    {<<JObject(<< <<t, JArray(Repeat(JString(ComponentA), n))>> >>)>> :
        t \in {ActorClawss}, n \in 0..MaxValues}
    \cup {<<JObject(<< <<t, JArray(<<JString(ComponentA)>>)>> >>)>> :
            t \in {ActorBeacon, ActorNamed, ActorStruct, ActorMissing, ActorOutside}}
    \cup {<<JObject(<< <<ActorClawss, JArray(<<>>)>>, <<ActorStruct, JArray(<<>>)>> >>),
            JObject(<< <<ActorClawss, JArray(<<>>)>> >>)>>,
          <<JObject(<< <<ActorClawss, JArray(<<JString(ComponentB)>>)>> >>)>>,
          <<JObject(<< <<ActorClawss, JArray(<<JNumber>>)>> >>)>>,
          <<JObject(<< <<ActorClawss, JNumber>> >>)>>,
          <<JNumber>>}

\* item_list_entries: one object per mod, target -> key -> array of strings
ItemListValues ==
    {<<JObject(<< <<ItemOwn,
                    JObject(<< <<ItemOwn, JArray(Repeat(JString(ItemOwn), n))>> >>)>> >>)>> :
        n \in 0..MaxValues}
    \cup {<<JObject(<< <<ItemList,
                         JObject(<< <<<<"ItemTypes">>, JArray(<<JString(ItemPathA)>>)>> >>)>>,
                       <<ItemOwn,
                         JObject(<< <<ItemOwn, JArray(<<JString(ItemOwn)>>)>> >>)>> >>)>>,
          <<JObject(<< <<ItemOwn,
                         JObject(<< <<ItemOwn, JArray(<<JString(ItemPathA)>>)>> >>)>> >>)>>,
          <<JObject(<< <<ItemOwn,
                         JObject(<< <<ItemOwn, JArray(<<JNumber>>)>> >>)>> >>)>>,
          <<JObject(<< <<ItemOwn, JNumber>> >>)>>,
          <<JNumber>>}

\* the names a node of an actor package may carry, for the iteration order of
\* node_name_to_export_index
NodeNames == {"DefaultSceneRoot", "Mesh", "Unknown"}

\* the values Uuid::new_v4 may draw
Uuids == {"uuid-1", "uuid-2"}

---------------------------------------------------------------------------
(* The integration: every handler runs at most once, in any order, each over
   its target assets one at a time; the first handler that fails ends it. *)

Init ==
    /\ \E c \in MapChoices : game_paks = <<PatchPak(c), BasePak(c)>>
    /\ integrated_pak \in IntegratedChoices
    /\ handler = "idle"
    /\ values = <<>>
    /\ targets = <<>>
    /\ done = {}
    /\ outcome = "none"
    /\ step = NoStep
    /\ written = <<>>

CanStart(h) ==
    /\ handler = "idle"
    /\ outcome \in {"none", "Ok"}
    /\ h \notin done

\* the handler is entered with its values and has its targets before it
Enter(h, v, t) ==
    /\ handler' = h
    /\ values' = v
    /\ targets' = t
    /\ outcome' = "running"
    /\ step' = NoStep
    /\ UNCHANGED <<integrated_pak, game_paks, done, written>>

\* the handler fails on its values, before it has a target
Refuse(h, v, msg) ==
    /\ handler' = "idle"
    /\ values' = v
    /\ targets' = <<>>
    /\ outcome' = "Err"
    /\ done' = done \cup {h}
    /\ step' = [StepRes("Err", msg, "", Err(""), EmptyAsset) EXCEPT !.by = h]
    /\ UNCHANGED <<integrated_pak, game_paks, written>>

\* a pass that writes the in-memory package back before it fails
Advance_writing_before_failure(r) ==
    /\ step' = [r EXCEPT !.by = handler]
    /\ integrated_pak' = IF r.path = "" THEN integrated_pak
                         ELSE write_asset(integrated_pak, r.asset, r.path)
    /\ written' = written
    /\ IF r.kind = "Ok"
       THEN /\ targets' = Tail(targets)
            /\ UNCHANGED <<handler, outcome, done>>
       ELSE /\ targets' = <<>>
            /\ handler' = "idle"
            /\ outcome' = r.kind
            /\ done' = done \cup {handler}
    /\ UNCHANGED <<game_paks, values>>

\* a pass that, when it fails, takes the packages written so far out of the
\* integrated archive again
Advance_rolling_back(r) ==
    /\ step' = [r EXCEPT !.by = handler]
    /\ IF r.kind = "Ok"
       THEN /\ integrated_pak' = write_asset(integrated_pak, r.asset, r.path)
            /\ written' = (r.path :> r.asset) @@ written
            /\ targets' = Tail(targets)
            /\ UNCHANGED <<handler, outcome, done>>
       ELSE /\ targets' = <<>>
            /\ handler' = "idle"
            /\ outcome' = r.kind
            /\ done' = done \cup {handler}
            /\ integrated_pak' = [q \in DOMAIN integrated_pak \ DOMAIN written |->
                                     integrated_pak[q]]
            /\ written' = written
    /\ UNCHANGED <<game_paks, values>>

\* a pass over one target ended as r: on "Ok" the asset is written back and
\* the handler goes on, otherwise the handler ends with the failure
Advance(r) ==
    /\ step' = [r EXCEPT !.by = handler]
    /\ IF r.kind = "Ok"
       THEN /\ integrated_pak' = write_asset(integrated_pak, r.asset, r.path)
            /\ written' = (r.path :> r.asset) @@ written
            /\ targets' = Tail(targets)
            /\ UNCHANGED <<handler, outcome, done>>
       ELSE /\ targets' = <<>>
            /\ handler' = "idle"
            /\ outcome' = r.kind
            /\ done' = done \cup {handler}
            /\ UNCHANGED <<integrated_pak, written>>
    /\ UNCHANGED <<game_paks, values>>

StartMissionTrailheads ==
    /\ CanStart("mission_trailheads")
    /\ \E v \in TrailheadValues : Enter("mission_trailheads", v, MAP_PATHS)

MissionTrailheadsMap ==
    /\ handler = "mission_trailheads"
    /\ targets # <<>>
    /\ Advance(mission_trailheads_map(integrated_pak, game_paks, Head(targets), values))

StartPersistentActors ==
    /\ CanStart("persistent_actors")
    /\ \E v \in PersistentActorValues : Enter("persistent_actors", v, MAP_PATHS)

PersistentActorsMap ==
    /\ handler = "persistent_actors"
    /\ targets # <<>>
    /\ \E order \in Perms(NodeNames) :
          Advance(persistent_actors_map(integrated_pak, game_paks, Head(targets),
                                        values, order))

\* the targets come out of the hash map new_components in any order
StartLinkedActorComponents ==
    /\ CanStart("linked_actor_components")
    /\ \E v \in LinkedActorValues :
          LET m == new_components_of([map |-> <<>>, err |-> ""], v)
          IN  IF m.err # "" THEN Refuse("linked_actor_components", v, m.err)
              ELSE \E order \in Perms(DOMAIN m.map) :
                      Enter("linked_actor_components", v,
                            [i \in DOMAIN order |->
                                [name |-> order[i], components |-> m.map[order[i]]]])

LinkedActorComponentsAsset ==
    /\ handler = "linked_actor_components"
    /\ targets # <<>>
    /\ \E uuids \in [1..Len(Head(targets).components) -> Uuids] :
          Advance(linked_actor_components_asset(integrated_pak, game_paks,
                      Head(targets).name, Head(targets).components, uuids))

\* the targets come out of the hash map new_items in any order, and so do the
\* keys of each target
StartItemListEntries ==
    /\ CanStart("item_list_entries")
    /\ \E v \in ItemListValues :
          LET m == new_items_of([map |-> <<>>, err |-> ""], v)
          IN  IF m.err # "" THEN Refuse("item_list_entries", v, m.err)
              ELSE \E order \in Perms(DOMAIN m.map) :
                   \E keys \in [DOMAIN m.map -> UNION {Perms(DOMAIN m.map[n]) :
                                                        n \in DOMAIN m.map}] :
                      /\ \A n \in DOMAIN m.map : keys[n] \in Perms(DOMAIN m.map[n])
                      /\ Enter("item_list_entries", v,
                               [i \in DOMAIN order |->
                                   [name    |-> order[i],
                                    entries |-> [k \in DOMAIN keys[order[i]] |->
                                                    <<keys[order[i]][k],
                                                      m.map[order[i]][keys[order[i]][k]]>>],
                                    names   |-> order]])

ItemListEntriesAsset ==
    /\ handler = "item_list_entries"
    /\ targets # <<>>
    /\ Advance(item_list_entries_asset(integrated_pak, game_paks, Head(targets).name,
                                       Head(targets).entries, Head(targets).names))

\* the handler has done all its targets and returns Ok(())
Return ==
    /\ handler # "idle"
    /\ targets = <<>>
    /\ handler' = "idle"
    /\ outcome' = "Ok"
    /\ done' = done \cup {handler}
    /\ UNCHANGED <<integrated_pak, game_paks, values, targets, step, written>>

Next ==
    \/ StartMissionTrailheads
    \/ MissionTrailheadsMap
    \/ StartPersistentActors
    \/ PersistentActorsMap
    \/ StartLinkedActorComponents
    \/ LinkedActorComponentsAsset
    \/ StartItemListEntries
    \/ ItemListEntriesAsset
    \/ Return

Spec == Init /\ [][Next]_vars

---------------------------------------------------------------------------
(* The node imports of lines 469-491 on their own: a map package takes, one
   node after another, the class import of a node of an actor package and
   that import's owner. *)

\* the most nodes brought into one map
MaxNodes == 2

\* the pairs <<import_1, import_2>> a node of an actor package can give
NodeImports ==
    UNION {{<<a.imports[i], Get(get_import(a, a.imports[i].outer_index))>> :
               i \in {j \in 1..Len(a.imports) :
                         IsSome(get_import(a, a.imports[j].outer_index))}} :
           a \in {ActorAsset(n, c, "StructExport") : n \in BOOLEAN, c \in BOOLEAN}}

InitNodes ==
    /\ game_paks = <<BasePak([i \in 1..3 |-> "full"])>>
    /\ integrated_pak = <<>>
    /\ handler = "persistent_actors"
    /\ values = <<>>
    /\ targets = <<>>
    /\ done = {}
    /\ outcome = "running"
    /\ written = <<>>
    /\ \E v \in MapVariants \ {"absent"} :
          step = [StepRes("Ok", "", MAP_PATHS[2], Ok(MapVariant(v)), MapVariant(v))
                     EXCEPT !.by = "persistent_actors"]

\* values lists the pairs brought so far, step.asset is the map in memory
BringNodeImports ==
    /\ Len(values) < MaxNodes
    /\ \E pair \in NodeImports :
          /\ step' = [step EXCEPT !.asset = bring_node_imports(@, pair[1], pair[2])[1]]
          /\ values' = Append(values, pair)
    /\ UNCHANGED <<integrated_pak, game_paks, handler, targets, done, outcome, written>>

NextNodes == BringNodeImports

SpecNodes == InitNodes /\ [][NextNodes]_vars

---------------------------------------------------------------------------
(* The body of the loop over the actors, lines 285-318 and 327-677 of
   handle_persistent_actors, on their own: a map in memory takes, one actor
   after another, the actor's three imports and then its components and its
   export, the actor's package being read under its absolute path. *)

\* the most actors brought into one map
MaxActors == 2

\* the actors the instructions can name
ActorChoices == {ActorBeacon, ActorNamed, ActorStruct}

\* the maps in memory when the loop begins: the structural names are in, and
\* a map may import the class of the mesh node
LoopMaps ==
    {add_fnames([m EXCEPT !.imports = @ \o more], StructuralNames) :
        m \in {MapVariant("full"), MapVariant("nosettings")},
        more \in {<<>>, <<Import("/Script/CoreUObject", "Class", -1,
                                 "StaticMeshComponent")>>}}

InitActors ==
    /\ game_paks = <<BasePak([i \in 1..3 |-> "full"])>>
    /\ integrated_pak = <<>>
    /\ handler = "persistent_actors"
    /\ values = <<>>
    /\ targets = <<>>
    /\ done = {}
    /\ outcome = "running"
    /\ written = <<>>
    /\ \E m \in LoopMaps :
          step = [StepRes("Ok", "", MAP_PATHS[1], Ok(m), m)
                     EXCEPT !.by = "persistent_actors"]

\* lines 285-318: the names and the three imports of the next actor; values
\* lists the actors so far, targets holds the indices add_import returned
\* while the actor's export is still to come
BringActorImports ==
    /\ step.kind = "Ok"
    /\ targets = <<>>
    /\ Len(values) < MaxActors
    /\ \E a \in ActorChoices :
          LET actor == Str(Get(file_stem(a)))
              im == actor_imports(
                        add_fnames(step.asset, <<Str(a), actor \o "_C",
                                                 "Default__" \o actor \o "_C", actor>>),
                        Str(a), actor)
          IN  /\ step' = [step EXCEPT !.asset = im.asset]
              /\ targets' = <<im.added>>
              /\ values' = Append(values, a)
    /\ UNCHANGED <<integrated_pak, game_paks, handler, done, outcome, written>>

\* lines 327-677: the nodes of the actor's package are collected, the
\* components and the actor are appended, or the pass fails
AppendCollected ==
    /\ step.kind = "Ok"
    /\ targets # <<>>
    /\ \E order \in Perms(NodeNames) :
          LET a == values[Len(values)]
              level_index == find_level_index(step.asset)
              r == append_collected(
                       collect_components(step.asset, game_paks, Abs(a)),
                       actor_template_of([asset |-> step.asset, added |-> Head(targets)],
                                         Str(Get(file_stem(a))), level_index),
                       level_index, order)
          IN  step' = [step EXCEPT !.asset = r.asset, !.kind = r.kind, !.msg = r.msg]
    /\ targets' = <<>>
    /\ UNCHANGED <<integrated_pak, game_paks, handler, values, done, outcome, written>>

NextActors ==
    \/ BringActorImports
    \/ AppendCollected

SpecActors == InitActors /\ [][NextActors]_vars

---------------------------------------------------------------------------
(* The construction script graphs of handle_persistent_actors: lines 327-677
   over actor packages whose AllNodes and ChildNodes arrays vary, in maps that
   import the classes of both nodes *)

\* the longest AllNodes array
MaxListed == 2

\* the arrays of node references: AllNodes over the two node exports, with
\* repetitions, and the ChildNodes of each node
ListedChoices == UNION {[1..n -> {4, 5}] : n \in 1..MaxListed}
ChildChoices == {<<>>, <<4>>, <<5>>, <<5, 4>>}

\* the actor package whose construction script lists all and whose nodes 4
\* and 5 have the children children4 and children5
GraphAsset(all, children4, children5) ==
    LET refs(name, idx) ==
            [i \in 1..Len(idx) |-> ObjectProperty(FName_from_slice(name), idx[i])]
    IN  [ActorAsset(FALSE, FALSE, "StructExport") EXCEPT
            !.exports[2].properties[2].value = refs("AllNodes", all),
            !.exports[4].properties[3].value = refs("ChildNodes", children4),
            !.exports[5].properties[3].value = refs("ChildNodes", children5)]

InitGraphs ==
    /\ \E all \in ListedChoices : \E children4 \in ChildChoices \ {<<4>>} :
       \E children5 \in ChildChoices \ {<<5, 4>>} :
          game_paks = <<[p \in {Abs(a) : a \in ActorChoices} |->
                            Member(GraphAsset(all, children4, children5))]>>
    /\ integrated_pak = <<>>
    /\ handler = "persistent_actors"
    /\ values = <<>>
    /\ targets = <<>>
    /\ done = {}
    /\ outcome = "running"
    /\ written = <<>>
    /\ \E m \in {x \in LoopMaps : Len(x.imports) > Len(MapImports)} :
          step = [StepRes("Ok", "", MAP_PATHS[1], Ok(m), m)
                     EXCEPT !.by = "persistent_actors"]

SpecGraphs == InitGraphs /\ [][NextActors]_vars

---------------------------------------------------------------------------
(* Properties *)

AllPaths ==
    DOMAIN integrated_pak \cup DOMAIN written
    \cup UNION {DOMAIN game_paks[i] : i \in 1..Len(game_paks)}

\* the member of the first original archive that holds p
Original(p) == game_paks[Get(find_asset(game_paks, p))][p]

\* a pass of handler h over a target is the last thing recorded
Passed(h) == step.by = h /\ step.kind # "none" /\ step.path # ""

\* the number of entries of table equal to x
Count(table, x) == Cardinality({i \in 1..Len(table) : table[i] = x})

\* C1: a path held only by an original archive resolves to the original
\* package, and a path a handler has written back resolves, from then on, to
\* the package written last, which comes from the integrated archive.
C1_ResolvePrefersIntegrated ==
    \A p \in AllPaths :
        /\ p \in DOMAIN written
              => get_asset(integrated_pak, game_paks, p) = Ok(written[p])
        /\ (p \notin DOMAIN integrated_pak /\ IsSome(find_asset(game_paks, p)))
              => get_asset(integrated_pak, game_paks, p) = Ok(Original(p).asset)

\* a handler resolved the third map after another handler had changed it and
\* written it back: what it got is not the original
C1_Witness ==
    /\ step.kind = "Ok"
    /\ step.path = MAP_PATHS[3]
    /\ step.resolved.ok
    /\ step.resolved.asset # Original(MAP_PATHS[3]).asset
    /\ Len(step.resolved.asset.imports) > Len(Original(MAP_PATHS[3]).asset.imports)

\* the pass of handle_persistent_actors over a map that resolves and has a
\* Level export, for the one actor /Game/Actors/Beacon
InjectsBeacon ==
    /\ Passed("persistent_actors")
    /\ values = <<JArray(<<JString(ActorBeacon)>>)>>
    /\ step.resolved.ok
    /\ find_level_index(step.resolved.asset) # 0

\* the nodes collected from the package of /Game/Actors/Beacon
BeaconNodes ==
    collect_components(step.resolved.asset, game_paks, Abs(ActorBeacon)).nodes

\* C2: the injection of one actor with N collected nodes succeeds, grows the
\* map's Export Table by N+1 and the Level's index_data by one entry, the
\* 1-based index of the actor.
C2_InjectionGrowsExports ==
    InjectsBeacon =>
        LET old == step.resolved.asset.exports
            new == step.asset.exports
            level_index == find_level_index(step.resolved.asset)
        IN  /\ step.kind = "Ok"
            /\ Len(new) = Len(old) + Len(BeaconNodes) + 1
            /\ new[level_index].index_data = Append(old[level_index].index_data, Len(new))

\* C3: after the injection of an actor with N collected nodes into a map of
\* old_len exports, the components are at old_len+1..old_len+N, one for every
\* node, and the AttachParent reference of every one that has a parent is in
\* old_len+1..old_len+N.
C3_AttachParentIsFinalIndex ==
    InjectsBeacon =>
        LET old_len == Len(step.resolved.asset.exports)
            new == step.asset.exports
            N == Len(BeaconNodes)
        IN  /\ step.kind = "Ok"
            /\ Len(new) >= old_len + N
            /\ \A k \in 1..N :
                  /\ IsSome(BeaconNodes[k].attach_parent)
                        => \E i \in 1..Len(new[old_len + k].properties) :
                              new[old_len + k].properties[i].name.content = "AttachParent"
                  /\ \A i \in 1..Len(new[old_len + k].properties) :
                        new[old_len + k].properties[i].name.content = "AttachParent"
                           => new[old_len + k].properties[i].value
                                 \in (old_len + 1)..(old_len + N)

\* C4: when a pass of handle_item_list_entries has appended the item
\* /Game/Items/Own to arrays of object references, the package import and the
\* generated class import of that item are in the Import Table once each.
C4_ItemImportsOnce ==
    (Passed("item_list_entries") /\ step.kind = "Ok")
        => /\ Count(step.asset.imports,
                    Import("/Script/CoreUObject", "Package", 0, Str(ItemOwn))) <= 1
           /\ \A i \in 1..Len(step.asset.imports) :
                 Count(step.asset.imports,
                       Import("/Script/Engine", "BlueprintGeneratedClass", -i,
                              "Own_C")) <= 1
           /\ Len(step.asset.imports) <= Len(step.resolved.asset.imports) + 2

Resolves(asset, index) ==
    \/ index = 0
    \/ is_import(index) /\ -index <= Len(asset.imports)
    \/ is_export(index) /\ index <= Len(asset.exports)

\* the object references among properties, to the depth of arrays and structs
\* of object references
PropertyIndices(properties) ==
    {properties[i].value :
        i \in {j \in 1..Len(properties) : properties[j].ptype = "ObjectProperty"}}
    \cup UNION {{properties[i].value[k].value :
                    k \in {l \in 1..Len(properties[i].value) :
                              properties[i].value[l].ptype = "ObjectProperty"}} :
                i \in {j \in 1..Len(properties) :
                          properties[j].ptype \in {"ArrayProperty", "StructProperty"}}}

Range(seq) == {seq[i] : i \in 1..Len(seq)}

\* every PackageIndex an export stores
ExportIndices(export) ==
    {export.class_index, export.template_index, export.outer_index}
    \cup Range(export.serialization_before_serialization_dependencies)
    \cup Range(export.create_before_serialization_dependencies)
    \cup Range(export.serialization_before_create_dependencies)
    \cup Range(export.create_before_create_dependencies)
    \cup Range(export.index_data)
    \cup Range(export.children)
    \cup PropertyIndices(export.properties)

\* C6: in every package a handler has written back, every PackageIndex of
\* every export refers to an entry of the package's Import Table or Export
\* Table, or is null.
C6_WrittenIndicesResolve ==
    \A p \in DOMAIN written :
        \A i \in 1..Len(written[p].exports) :
            \A index \in ExportIndices(written[p].exports[i]) :
                Resolves(written[p], index)

\* a written map whose settings export has taken a reference to an import
\* the handler added
C6_Witness ==
    \E p \in DOMAIN written :
        /\ Passed("mission_trailheads")
        /\ step.path = p
        /\ step.resolved.ok
        /\ \E i \in 1..Len(written[p].exports) :
              \E index \in PropertyIndices(written[p].exports[i].properties) :
                  is_import(index) /\ -index > Len(step.resolved.asset.imports)

\* the exports of old are, position by position, those of new
KeepsPositions(old, new) ==
    /\ Len(old) <= Len(new)
    /\ \A i \in 1..Len(old) :
          /\ old[i].object_name = new[i].object_name
          /\ old[i].variant = new[i].variant
          /\ old[i].class_index = new[i].class_index
          /\ old[i].outer_index = new[i].outer_index

\* C7: the Export Table a pass resolved is a positional prefix of the table
\* the pass leaves, and the table every written package started from, in the
\* archives the integration began with, is a positional prefix of its table.
C7_ExportsAppendOnly ==
    /\ (step.kind # "none" /\ step.resolved.ok)
          => KeepsPositions(step.resolved.asset.exports, step.asset.exports)
    /\ \A p \in DOMAIN written :
          \E ipak \in IntegratedChoices :
              /\ get_asset(ipak, game_paks, p).ok
              /\ KeepsPositions(get_asset(ipak, game_paks, p).asset.exports,
                                written[p].exports)

\* a pass has pushed exports
C7_Witness ==
    /\ step.kind # "none"
    /\ step.resolved.ok
    /\ Len(step.asset.exports) = Len(step.resolved.asset.exports) + 3

\* C8: a step that ends a handler with an error leaves the integrated archive
\* as it was and the handler without targets, and every pass over a target is
\* by a handler that has not ended.
C8_ErrorEndsHandler ==
    [][/\ outcome' = "Err" => /\ integrated_pak' = integrated_pak
                              /\ written' = written
                              /\ targets' = <<>>
                              /\ handler' = "idle"
                              /\ step'.kind = "Err"
                              /\ step'.by \in done'
       /\ (step' # step /\ step'.kind # "none") => step'.by \notin done]_vars

\* handle_persistent_actors has written the first map and failed on the
\* second, which has no Level export; the third is not written
C8_Witness ==
    /\ outcome = "Err"
    /\ done = {"persistent_actors"}
    /\ step.msg = "Unable to find Level category"
    /\ step.path = MAP_PATHS[2]
    /\ step.path \notin DOMAIN written
    /\ MAP_PATHS[1] \in DOMAIN written
    /\ MAP_PATHS[3] \notin DOMAIN written
    /\ MAP_PATHS[3] \notin DOMAIN integrated_pak

\* C9: a pass of handle_linked_actor_components that has pushed the exports
\* of a component and whose located BlueprintGeneratedClass export is not a
\* StructExport ends with an error, not with a panic.
C9_WrongVariantIsError ==
    (/\ Passed("linked_actor_components")
     /\ step.resolved.ok
     /\ Len(step.asset.exports) > Len(step.resolved.asset.exports)
     /\ LET loc == scan_locations([scs |-> 0, bgc |-> 0, cdo |-> 0, err |-> ""],
                                  step.resolved.asset, 1)
        IN  loc.bgc # 0 /\ step.resolved.asset.exports[loc.bgc].variant # "StructExport")
        => step.kind = "Err"

\* every value is an array of strings that have a file stem
ValidTrailheads(trailhead_arrays) ==
    \A i \in 1..Len(trailhead_arrays) :
        /\ trailhead_arrays[i].kind = "array"
        /\ \A k \in 1..Len(trailhead_arrays[i].items) :
              /\ trailhead_arrays[i].items[k].kind = "string"
              /\ IsSome(file_stem(trailhead_arrays[i].items[k].str))

\* the paths of the maps without an export whose class import is AstroSettings
NoSettings(p) ==
    /\ get_asset(integrated_pak, game_paks, p).ok
    /\ \A i \in 1..Len(get_asset(integrated_pak, game_paks, p).asset.exports) :
          ~class_import_is(get_asset(integrated_pak, game_paks, p).asset,
                           get_asset(integrated_pak, game_paks, p).asset.exports[i],
                           "AstroSettings")

\* C10: a pass of handle_mission_trailheads, with trailheads of the right
\* shape, over a map that has no export whose class import is AstroSettings
\* leaves every export as it was, does not fail, writes the map back and
\* leaves the handler running with the remaining maps.
C10_NoSettingsIsNoOp ==
    [][(/\ handler = "mission_trailheads"
        /\ targets # <<>>
        /\ step' # step
        /\ ValidTrailheads(values)
        /\ NoSettings(Head(targets)))
          => /\ step'.kind = "Ok"
             /\ step'.asset.exports = step'.resolved.asset.exports
             /\ Head(targets) \in DOMAIN integrated_pak'
             /\ integrated_pak'[Head(targets)] = Member(step'.asset)
             /\ handler' = "mission_trailheads"
             /\ outcome' = "running"
             /\ targets' = Tail(targets)]_vars

\* trailheads were staged for a map without the settings export, the map is
\* written with its exports as they were, and the handler has gone on
C10_Witness ==
    /\ Passed("mission_trailheads")
    /\ handler = "mission_trailheads"
    /\ step.kind = "Ok"
    /\ step.path = MAP_PATHS[2]
    /\ Len(step.asset.imports) > Len(step.resolved.asset.imports)
    /\ \A i \in 1..Len(step.resolved.asset.exports) :
          ~class_import_is(step.resolved.asset, step.resolved.asset.exports[i],
                           "AstroSettings")
    /\ step.asset.exports = step.resolved.asset.exports
    /\ integrated_pak[step.path] = Member(step.asset)

\* the object references of the export at i that point at an import of class
\* AstroMissionDataAsset
TrailheadRefs(asset, i) ==
    {j \in 1..Len(asset.exports[i].properties) :
        /\ asset.exports[i].properties[j].ptype = "ObjectProperty"
        /\ is_import(asset.exports[i].properties[j].value)
        /\ IsSome(get_import(asset, asset.exports[i].properties[j].value))
        /\ Get(get_import(asset, asset.exports[i].properties[j].value)).class_name.content
              = "AstroMissionDataAsset"}

\* the package holds a trailhead appended by handle_mission_trailheads
HasTrailheads(asset) ==
    \E i \in 1..Len(asset.exports) : TrailheadRefs(asset, i) # {}

\* C11: when handle_persistent_actors, given the actor /Game/Actors/Beacon,
\* comes to a map that handle_mission_trailheads has written back with
\* trailheads in it, it resolves that written package, succeeds, and leaves in
\* the integrated archive a package with the trailheads and with more exports
\* than before.
C11_BothHandlersCompose ==
    [][(/\ handler = "persistent_actors"
        /\ "mission_trailheads" \in done
        /\ targets # <<>>
        /\ step' # step
        /\ values = <<JArray(<<JString(ActorBeacon)>>)>>
        /\ Head(targets) \in DOMAIN written
        /\ HasTrailheads(written[Head(targets)])
        /\ find_level_index(written[Head(targets)]) # 0)
          => /\ step'.resolved = Ok(written[Head(targets)])
             /\ step'.kind = "Ok"
             /\ Head(targets) \in DOMAIN integrated_pak'
             /\ HasTrailheads(integrated_pak'[Head(targets)].asset)
             /\ Len(integrated_pak'[Head(targets)].asset.exports)
                   > Len(written[Head(targets)].exports)]_vars

\* the pass of handle_persistent_actors over a map that resolves and has a
\* Level export, for n times the actor /Game/Actors/Beacon
InjectsBeacons(n) ==
    /\ Passed("persistent_actors")
    /\ values = <<JArray(Repeat(JString(ActorBeacon), n))>>
    /\ step.resolved.ok
    /\ find_level_index(step.resolved.asset) # 0

\* C12: after the injection of n actors, each with N collected nodes, into a
\* map of old_len exports, every actor has its N components right before it:
\* the actor number a is at old_len + a*(N+1), its components at the N
\* indices before, and the outer reference of each is the actor's index.
C12_ActorFollowsComponents ==
    \A n \in 1..MaxValues :
        InjectsBeacons(n) =>
            LET old_len == Len(step.resolved.asset.exports)
                new == step.asset.exports
                N == Len(BeaconNodes)
            IN  /\ step.kind = "Ok"
                /\ Len(new) = old_len + n * (N + 1)
                /\ \A a \in 1..n :
                      LET at == old_len + a * (N + 1)
                      IN  /\ new[at].object_name = FName_from_slice("Beacon")
                          /\ \A k \in 1..N :
                                /\ new[at - k].outer_index = at
                                /\ new[at - k].object_name.content
                                      = BeaconNodes[N + 1 - k].internal_variable_name

\* C13: the injected actor export, the last of the table, has the edges of the
\* actor stencil followed by serialization-before-create edges to its class
\* import and its template import and by a create-before-create edge to the
\* Level export, and the Level export has gained the actor's index at the end
\* of index_data and of its create-before-serialization edges.
C13_ActorEdges ==
    InjectsBeacon =>
        LET old == step.resolved.asset.exports
            new == step.asset.exports
            level_index == find_level_index(step.resolved.asset)
            actor == new[Len(new)]
        IN  /\ step.kind = "Ok"
            /\ Len(new) > Len(old)
            /\ is_import(actor.class_index) /\ is_import(actor.template_index)
            /\ actor.serialization_before_create_dependencies
                  = LEVEL_TEMPLATE_actor.serialization_before_create_dependencies
                    \o <<actor.class_index, actor.template_index>>
            /\ actor.create_before_create_dependencies
                  = Append(LEVEL_TEMPLATE_actor.create_before_create_dependencies,
                           level_index)
            /\ new[level_index].index_data
                  = Append(old[level_index].index_data, Len(new))
            /\ new[level_index].create_before_serialization_dependencies
                  = Append(old[level_index].create_before_serialization_dependencies,
                           Len(new))

\* the properties of export named name, in order
PropertiesNamed(export, name) ==
    SelectSeq(export.properties, LAMBDA p : p.name.content = name)

\* C17: the injected actor export, the last of the table, has one array
\* BlueprintCreatedComponents with one object reference per collected node, the
\* k-th holding old_len + k, and it has a RootComponent reference exactly when
\* a node is named DefaultSceneRoot, holding that node's index.
C17_ActorPropertyList ==
    InjectsBeacon =>
        LET old_len == Len(step.resolved.asset.exports)
            new == step.asset.exports
            N == Len(BeaconNodes)
            actor == new[Len(new)]
            arrays == PropertiesNamed(actor, "BlueprintCreatedComponents")
            roots == PropertiesNamed(actor, "RootComponent")
            rooted == {k \in 1..N :
                          BeaconNodes[k].internal_variable_name = "DefaultSceneRoot"}
        IN  /\ step.kind = "Ok"
            /\ Len(new) = old_len + N + 1
            /\ Len(arrays) = 1
            /\ arrays[1].ptype = "ArrayProperty"
            /\ Len(arrays[1].value) = N
            /\ \A k \in 1..N :
                  /\ arrays[1].value[k].ptype = "ObjectProperty"
                  /\ arrays[1].value[k].value = old_len + k
            /\ (rooted = {}) <=> (roots = <<>>)
            /\ \A i \in 1..Len(roots) :
                  /\ roots[i].ptype = "ObjectProperty"
                  /\ roots[i].value \in {old_len + k : k \in rooted}
            /\ Len(roots) <= 1

\* the number of imports of imports with this class name and object name
CountNamed(imports, class_name, object_name) ==
    Cardinality({i \in 1..Len(imports) :
                    /\ imports[i].class_name.content = class_name
                    /\ imports[i].object_name.content = object_name})

C16_NullTypeLinkRecovers ==
    [][(targets # <<>> /\ targets' = <<>>) =>
          LET c == collect_components(step.asset, game_paks, Abs(values[Len(values)]))
              old_len == Len(step.asset.exports)
          IN  (c.kind = "Ok" /\ \E k \in 1..Len(c.nodes) : c.nodes[k].type_link = 0)
                 => /\ step'.kind = "Ok"
                    /\ Len(step'.asset.exports) = old_len + Len(c.nodes) + 1
                    /\ \A k \in 1..Len(c.nodes) :
                          c.nodes[k].type_link = 0
                             => step'.asset.exports[old_len + k].class_index = 0]_vars

\* C15: the imports a pass of handle_persistent_actors or of
\* handle_linked_actor_components has added come in chains of three, package,
\* generated class, class default object: the second has the first as its
\* outer reference, the third has the second, and each outer reference points
\* at an import appended before.
C15_ImportChains ==
    (/\ Passed("persistent_actors") \/ Passed("linked_actor_components")
     /\ step.resolved.ok
     /\ (Len(step.asset.imports) - Len(step.resolved.asset.imports)) % 3 = 0)
        => LET old == Len(step.resolved.asset.imports)
               new == step.asset.imports
           IN  \A j \in 0..((Len(new) - old) \div 3 - 1) :
                  LET p == old + 3 * j + 1
                  IN  /\ new[p].class_name.content = "Package"
                      /\ new[p].outer_index = 0
                      /\ new[p + 1].class_name.content = "BlueprintGeneratedClass"
                      /\ new[p + 1].outer_index = -p
                      /\ new[p + 2].class_name = new[p + 1].object_name
                      /\ new[p + 2].outer_index = -(p + 1)

\* the trailheads of every mod's array, in order
RECURSIVE Trailheads(_)
Trailheads(trailhead_arrays) ==
    IF trailhead_arrays = <<>> THEN <<>>
    ELSE [i \in 1..Len(Head(trailhead_arrays).items) |->
             Head(trailhead_arrays).items[i].str]
         \o Trailheads(Tail(trailhead_arrays))

\* property is an object reference named name to an import of class
\* AstroMissionDataAsset, named as the file stem of trailhead, whose outer
\* reference is the package import of trailhead
IsTrailheadRef(asset, property, name, trailhead) ==
    /\ property.ptype = "ObjectProperty"
    /\ property.name = name
    /\ is_import(property.value)
    /\ IsSome(get_import(asset, property.value))
    /\ LET import == Get(get_import(asset, property.value))
       IN  /\ import.class_package.content = "/Script/Astro"
           /\ import.class_name.content = "AstroMissionDataAsset"
           /\ import.object_name.content = Str(Get(file_stem(trailhead)))
           /\ IsSome(get_import(asset, import.outer_index))
           /\ Get(get_import(asset, import.outer_index))
                 = Import("/Script/CoreUObject", "Package", 0, Str(trailhead))

\* C18: after a pass of handle_mission_trailheads, with trailheads of the
\* right shape, over a map that has an export whose class import is
\* AstroSettings, the pass has succeeded, the first such export has its old
\* properties followed by one object reference per trailhead, in the order
\* supplied and duplicates included, every one named as the export and pointing
\* at the trailhead's AstroMissionDataAsset import, every other export is as it
\* was, and this is the package written back.
C18_TrailheadsAppended ==
    (/\ Passed("mission_trailheads")
     /\ ValidTrailheads(values)
     /\ step.resolved.ok
     /\ settings_export_index(step.resolved.asset) # 0)
        => LET old == step.resolved.asset.exports
               new == step.asset.exports
               e == settings_export_index(step.resolved.asset)
               ths == Trailheads(values)
           IN  /\ step.kind = "Ok"
               /\ Len(new) = Len(old)
               /\ \A i \in 1..Len(old) : i # e => new[i] = old[i]
               /\ new[e] = [old[e] EXCEPT !.properties = new[e].properties]
               /\ Len(new[e].properties) = Len(old[e].properties) + Len(ths)
               /\ SubSeq(new[e].properties, 1, Len(old[e].properties))
                     = old[e].properties
               /\ \A k \in 1..Len(ths) :
                     IsTrailheadRef(step.asset,
                                    new[e].properties[Len(old[e].properties) + k],
                                    old[e].object_name, ths[k])
               /\ step.path \in DOMAIN written
               /\ written[step.path] = step.asset

\* the same trailhead supplied twice has given the settings export two
\* references
C18_Witness ==
    /\ Passed("mission_trailheads")
    /\ step.kind = "Ok"
    /\ values = <<JArray(<<JString(MissionA), JString(MissionA)>>)>>
    /\ settings_export_index(step.resolved.asset) # 0
    /\ LET e == settings_export_index(step.resolved.asset)
       IN  /\ Len(step.asset.exports[e].properties)
                 = Len(step.resolved.asset.exports[e].properties) + 2
           /\ Cardinality(TrailheadRefs(step.asset, e)) = 2

\* the pass of handle_linked_actor_components over the actor blueprint
\* /Game/Actors/Clawss, in which the handler finds all it looks for, with n
\* times the component /Game/Components/Light
AttachesLights(n) ==
    /\ Passed("linked_actor_components")
    /\ values = <<JObject(<< <<ActorClawss, JArray(Repeat(JString(ComponentA), n))>> >>)>>
    /\ step.path = Abs(ActorClawss)
    /\ step.resolved.ok

\* the elements the arrays named name of export have, as export indices
ArrayRefs(export, name) ==
    [i \in 1..Len(PropertiesNamed(export, name)) |->
        [k \in 1..Len(PropertiesNamed(export, name)[i].value) |->
            PropertiesNamed(export, name)[i].value[k].value]]

\* C19: the attachment of one component to an actor asset of L exports
\* succeeds and appends the template export at L+1, the object-property export
\* at L+2 and the SCS node at L+3; the node's ComponentTemplate and the class
\* default object's new serialization edge hold L+1, the generated class's
\* children gain L+2, and the AllNodes and RootNodes arrays of the construction
\* script each gain one element holding L+3.
C19_ThreeExportsLinked ==
    AttachesLights(1) =>
        LET old == step.resolved.asset.exports
            new == step.asset.exports
            L == Len(old)
            loc == scan_locations([scs |-> 0, bgc |-> 0, cdo |-> 0, err |-> ""],
                                  step.resolved.asset, 1)
        IN  /\ step.kind = "Ok"
            /\ Len(new) = L + 3
            /\ new[L + 1].variant = "NormalExport"
            /\ new[L + 2].variant = "RawExport"
            /\ new[L + 3].variant = "NormalExport"
            /\ new[L + 3].object_name.content = "SCS_Node"
            /\ \E i \in 1..Len(new[L + 3].properties) :
                  /\ new[L + 3].properties[i].name.content = "ComponentTemplate"
                  /\ new[L + 3].properties[i].value = L + 1
            /\ new[loc.cdo].serialization_before_serialization_dependencies
                  = Append(old[loc.cdo].serialization_before_serialization_dependencies,
                           L + 1)
            /\ new[loc.bgc].children = Append(old[loc.bgc].children, L + 2)
            /\ \A name \in {"AllNodes", "RootNodes"} :
                  /\ Len(ArrayRefs(new[loc.scs], name)) = 1
                  /\ ArrayRefs(new[loc.scs], name)
                        = [i \in 1..1 |-> Append(ArrayRefs(old[loc.scs], name)[i], L + 3)]

\* C20: the attachment of two components to an actor asset succeeds and the
\* two SCS_Node exports it has appended have different name numbers.
C20_NodeNumbersDistinct ==
    AttachesLights(2) =>
        LET L == Len(step.resolved.asset.exports)
            new == step.asset.exports
            nodes == {i \in (L + 1)..Len(new) :
                         /\ new[i].variant = "NormalExport"
                         /\ new[i].object_name.content = "SCS_Node"}
        IN  /\ step.kind = "Ok"
            /\ Cardinality(nodes) = 2
            /\ \A i, j \in nodes :
                  i # j => new[i].object_name.index # new[j].object_name.index

\* the pass of handle_item_list_entries over the asset /Game/Items/Own, whose
\* arrays are named as the key /Game/Items/Own, with n times the item path
\* /Game/Items/Own under that key
AppendsOwn(n) ==
    /\ Passed("item_list_entries")
    /\ values = <<JObject(<< <<ItemOwn,
                      JObject(<< <<ItemOwn, JArray(Repeat(JString(ItemOwn), n))>> >>)>> >>)>>
    /\ step.path = Abs(ItemOwn)
    /\ step.resolved.ok

\* C21: after one item path has been applied to the arrays its key matches,
\* every export has as many top-level properties as before, and every matched
\* array has one element more: an object reference to an import of class
\* BlueprintGeneratedClass in an array of ObjectProperty, a soft reference
\* named "path.class" in an array of SoftObjectProperty.
C21_ArraysGrow ==
    AppendsOwn(1) =>
        LET old == step.resolved.asset.exports
            new == step.asset.exports
        IN  /\ step.kind = "Ok"
            /\ Len(new) = Len(old)
            /\ \A i \in 1..Len(old) :
                  /\ Len(new[i].properties) = Len(old[i].properties)
                  /\ \A j \in 1..Len(old[i].properties) :
                        (/\ old[i].properties[j].ptype = "ArrayProperty"
                         /\ old[i].properties[j].name.content = Str(ItemOwn))
                          => LET was == old[i].properties[j].value
                                 now == new[i].properties[j].value
                             IN  /\ Len(now) = Len(was) + 1
                                 /\ SubSeq(now, 1, Len(was)) = was
                                 /\ old[i].properties[j].array_type = ObjectArray
                                       => /\ now[Len(now)].ptype = "ObjectProperty"
                                          /\ IsSome(get_import(step.asset,
                                                               now[Len(now)].value))
                                 /\ old[i].properties[j].array_type = SoftObjectArray
                                       => /\ now[Len(now)].ptype = "SoftObjectProperty"
                                          /\ now[Len(now)].value.content
                                                = Str(ItemOwn) \o ".Own"

\* the imports of asset that the object references of export point at, those
\* at the top of its property list and those inside its arrays
ReferredImports(asset, export) ==
    {Get(get_import(asset, index)) :
        index \in {x \in PropertyIndices(export.properties) :
                      is_import(x) /\ IsSome(get_import(asset, x))}}

\* C22: a pass of handle_item_list_entries over the asset /Game/Items/List with
\* the unqualified key ItemTypes and the item path /Game/Items/ItemA succeeds,
\* and every NormalExport with an array property named ItemTypes has gained a
\* reference to the generated class import ItemA_C.
C22_KeysMatchArrays ==
    (/\ Passed("item_list_entries")
     /\ step.path = Abs(ItemList)
     /\ step.resolved.ok
     /\ \E i \in 1..Len(values) : \E t \in 1..Len(values[i].fields) :
           /\ values[i].fields[t][1] = ItemList
           /\ values[i].fields[t][2]
                 = JObject(<< <<<<"ItemTypes">>, JArray(<<JString(ItemPathA)>>)>> >>))
        => /\ step.kind = "Ok"
           /\ \A i \in 1..Len(step.resolved.asset.exports) :
                 (/\ step.resolved.asset.exports[i].variant = "NormalExport"
                  /\ PropertiesNamed(step.resolved.asset.exports[i], "ItemTypes") # <<>>)
                    => \E import \in ReferredImports(step.asset, step.asset.exports[i]) :
                          /\ import.class_name.content = "BlueprintGeneratedClass"
                          /\ import.object_name.content = "ItemA_C"

\* C23: in the attachment of one component to an actor asset of L exports the
\* SCS node cloned from the stencil, at L+3, has for class reference the
\* target's import of the class SCS_Node and for template reference the
\* target's import Default__SCS_Node, its outer is the construction script and
\* its extras are the 4-byte zero marker; the generic template clone at L+1
\* has the component's generated class and default object for class and
\* template reference.
C23_ClonesRetargeted ==
    (AttachesLights(1) /\ Len(step.asset.exports) = Len(step.resolved.asset.exports) + 3) =>
        LET L == Len(step.resolved.asset.exports)
            new == step.asset.exports
            loc == scan_locations([scs |-> 0, bgc |-> 0, cdo |-> 0, err |-> ""],
                                  step.resolved.asset, 1)
            need == needed_imports(step.resolved.asset)
            I == Len(step.resolved.asset.imports)
        IN  /\ new[L + 1].class_index = -(I + 2)
            /\ new[L + 1].template_index = -(I + 3)
            /\ new[L + 1].outer_index = loc.bgc
            /\ new[L + 1].extras = ZeroExtras
            /\ new[L + 3].class_index = Get(need.scs_node)
            /\ new[L + 3].template_index = Get(need.default_scs_node)
            /\ new[L + 3].outer_index = loc.scs
            /\ new[L + 3].extras = ZeroExtras

\* the names a property list holds: the names of the properties, and the type
\* and the value of each enumeration property
WrittenNames(properties) ==
    {properties[i].name.content : i \in 1..Len(properties)}
    \cup {properties[i].value.content :
            i \in {j \in 1..Len(properties) : properties[j].ptype = "EnumProperty"}}
    \cup {Get(properties[i].enum_type).content :
            i \in {j \in 1..Len(properties) :
                      properties[j].ptype = "EnumProperty"
                      /\ IsSome(properties[j].enum_type)}}

AttachParents(export) ==
    {export.properties[i].value :
        i \in {j \in 1..Len(export.properties) :
                  /\ export.properties[j].ptype = "ObjectProperty"
                  /\ export.properties[j].name.content = "AttachParent"}}

\* C25: whatever the construction script graph of the actor's package, the
\* second pass over the component exports never meets an AttachParent value
\* that the map from old to new export indices lacks, and when the actor has
\* been appended every AttachParent of an appended component is the index of
\* an appended component.
C25_AttachParentsMapped ==
    [][(step.kind = "Ok" /\ targets # <<>>)
         => /\ ~(step'.kind = "Panic" /\ step'.msg = "no entry found for key")
            /\ step'.kind = "Ok"
                 => \A i \in (Len(step.asset.exports) + 1)..(Len(step'.asset.exports) - 1) :
                       AttachParents(step'.asset.exports[i])
                          \subseteq (Len(step.asset.exports) + 1)..(Len(step'.asset.exports) - 1)]_vars

\* an actor was appended whose node lists itself as a child and is listed
\* twice in AllNodes: the later of its two components is its own parent
C25_Witness ==
    /\ step.kind = "Ok"
    /\ step.by = "persistent_actors"
    /\ targets = <<>>
    /\ \E i \in 1..Len(step.asset.exports) :
          /\ AttachParents(step.asset.exports[i]) = {i}
          /\ \E j \in 1..(i - 1) :
                /\ step.asset.exports[j].object_name = step.asset.exports[i].object_name
                /\ AttachParents(step.asset.exports[j]) = {i}

\* C26: the injection of the actor /Game/Actors/Beacon, whose package is the
\* member Astro/Content/Actors/Beacon.uasset of the game archives, into a map
\* with a Level export is not refused with an invalid actor path.
C26_ActorPathAccepted ==
    (/\ InjectsBeacons(1)
     /\ Abs(ActorBeacon) = "Astro/Content/Actors/Beacon.uasset"
     /\ IsSome(find_asset(game_paks, Abs(ActorBeacon))))
        => ~(step.kind = "Err" /\ step.msg = "Invalid persistent actor path")

\* C27: when a handler has ended with an error, every package it or an
\* earlier handler wrote back is still in the integrated archive as it was
\* written, and when the error is on the k-th map of a handler that goes
\* through the maps in order, each of the k-1 maps before it is among them.
C27_EarlierTargetsStay ==
    outcome = "Err" =>
        /\ \A p \in DOMAIN written :
              /\ p \in DOMAIN integrated_pak
              /\ integrated_pak[p] = Member(written[p])
        /\ \A k \in 1..Len(MAP_PATHS) :
              (/\ step.by \in {"mission_trailheads", "persistent_actors"}
               /\ step.path = MAP_PATHS[k])
                 => \A j \in 1..(k - 1) : MAP_PATHS[j] \in DOMAIN written

\* handle_mission_trailheads has appended trailheads to the first two maps
\* and failed on the third, which no archive holds
C27_Witness ==
    /\ outcome = "Err"
    /\ step.by = "mission_trailheads"
    /\ step.path = MAP_PATHS[3]
    /\ \A j \in 1..2 :
          /\ MAP_PATHS[j] \in DOMAIN integrated_pak
          /\ integrated_pak[MAP_PATHS[j]].ok
          /\ HasTrailheads(integrated_pak[MAP_PATHS[j]].asset)

\* C28: when the attachment of one component to an actor asset of L exports
\* has pushed the new SCS_Node export at L+3, no SCS_Node export among the L
\* the asset had carries the same numbered name.
C28_NodeNumberUnused ==
    (AttachesLights(1) /\ Len(step.asset.exports) = Len(step.resolved.asset.exports) + 3) =>
        LET old == step.resolved.asset.exports
            new == step.asset.exports
        IN  \A i \in 1..Len(old) :
               (/\ old[i].variant = "NormalExport"
                /\ class_import_is(step.resolved.asset, old[i], "SCS_Node"))
                  => new[i].object_name # new[Len(old) + 3].object_name

\* C29: a pass over a map whose path is a member of the integrated archive
\* that does not decode resolves nothing: it does not go on with the package
\* of an original archive.
C29_UndecodableMemberFails ==
    [][(/\ handler \in {"mission_trailheads", "persistent_actors"}
        /\ targets # <<>>
        /\ Head(targets) \in DOMAIN integrated_pak
        /\ ~integrated_pak[Head(targets)].ok
        /\ step' # step)
          => ~step'.resolved.ok]_vars

\* the integrated archive after the loop of handle_linked_actor_components
\* (lines 746-1095) has gone through targets in the order given: each target
\* that passes is written back, the first that fails ends the loop
RECURSIVE LinkedRun(_, _, _)
LinkedRun(ipak, gpaks, order) ==
    IF order = <<>> THEN ipak
    ELSE LET r == linked_actor_components_asset(ipak, gpaks, Head(order).name,
                      Head(order).components,
                      [i \in 1..Len(Head(order).components) |-> "uuid-1"])
         IN  IF r.kind = "Ok"
             THEN LinkedRun(write_asset(ipak, r.asset, r.path), gpaks, Tail(order))
             ELSE ipak

\* C30: when handle_linked_actor_components has its targets before it, the
\* integrated archive it leaves is the same for every order in which the
\* targets can come out of the map that holds them.
C30_HandlersDeterministic ==
    (handler = "linked_actor_components" /\ outcome = "running" /\ step = NoStep) =>
        LET m == new_components_of([map |-> <<>>, err |-> ""], values).map
        IN  Cardinality({LinkedRun(integrated_pak, game_paks,
                             [i \in DOMAIN order |->
                                 [name |-> order[i], components |-> m[order[i]]]]) :
                            order \in Perms(DOMAIN m)}) = 1

====
